---- MODULE Spec2Model ----
(***************************************************************************)
(* Authentication core of house-finder: the credential stores of package   *)
(* internal/auth (magic-link tokens, sessions, API keys, users,           *)
(* passkeys), the failure rate limiter, the gatekeeper middleware chain    *)
(* RequireAPIKey(RequireAuth(mux)), and the handlers of internal/web that  *)
(* issue credentials (login, verify, CLI completion, POST /api/keys, user  *)
(* administration, passkey registration and login).                        *)
(*                                                                         *)
(* The SQLite database is a set of rows per table; every SQL statement is  *)
(* one atomic step.  Each request runs on its own goroutine: a goroutine   *)
(* is a member of Procs with a program counter pc, the call it is running  *)
(* (req, which also holds the call's local variables) and the result of    *)
(* its last call (res).  Time is counted in seconds.  crypto/rand never    *)
(* repeats a value and SHA-256 has no collisions.  Database errors other   *)
(* than "no rows" are not modelled.                                        *)
(***************************************************************************)
EXTENDS Integers, Sequences, FiniteSets, TLC

\* ---------------------------------------------------------------- bounds
MaxTokens == 2

MaxSessions == 1

MaxTicks == 2

MaxUsers == 1

MaxPasskeys == 1

MaxChallenges == 2

\* ------------------------------------------------- program constants (sec)
tokenExpiry == 900

sessionExpiry == 2592000

rateLimitWindow == 60

rateLimitMaxFail == 10

StatusOK == 200

StatusCreated == 201

StatusSeeOther == 303

StatusBadRequest == 400

StatusUnauthorized == 401

StatusForbidden == 403

StatusNotFound == 404

StatusMethodNotAllowed == 405

StatusConflict == 409

StatusTooManyRequests == 429

StatusInternalServerError == 500

\* ------------------------------------------------------------ input sets
Procs == {"g1", "g2"}

\* The goroutines that serve HTTP requests in the gatekeeper scenario.
GateProcs == {"g1"}

\* The user who logs in in the gatekeeper scenario.
GateUsers == {"admin@example.com"}

Emails == {"admin@example.com", "bob@example.com"}

\* auth.Config.AdminEmail; NewUserStore keeps it in lower case.
adminEmail == "admin@example.com"

\* Addresses the administrator adds to the directory.
DirectoryEmails == {"bob@example.com"}

\* Values of the email form field: empty, blank, the administrator, a
\* directory user in two spellings, and a stranger.
SubmittedEmails == {"", " ", "admin@example.com", "bob@example.com",
                    "Bob@Example.COM", "eve@example.com"}

\* The templates of handleLoginSubmit and of cliAuthHandlers.submitEmail.
Pages == {"login.html", "cli_auth.html"}

successMsg == "If that email is registered, a login link has been sent. Check your inbox."

\* Owners APIKeyStore.Create is called with: handleCreateKey passes "" when
\* the request has no session.
KeyOwners == Emails \cup {""}

KeyNames == {"CLI"}

\* Strings are tuples of characters.  generateAPIKey returns "hf_" followed
\* by the hex encoding of its random bytes; two such values are enough to
\* have keys that agree on their first 8 characters.
KeyTag == <<"h", "f", "_">>

GeneratedKeys == {KeyTag \o <<"0", "0", "0", "0", "0", "0">>,
                  KeyTag \o <<"0", "0", "0", "0", "0", "1">>}

\* Strings presented as keys: the real ones, one that differs from a real
\* key in one character, a key's display prefix, and a key without its tag.
PresentedKeys == GeneratedKeys \cup
                 {KeyTag \o <<"1", "0", "0", "0", "0", "0">>,
                  KeyTag \o <<"0", "0", "0", "0", "0">>,
                  <<"0", "0", "0", "0", "0", "0">>}

\* A path is the tuple of its segments: "/api/keys/1" is <<"api","keys","1">>
\* and "/" is <<"">>.
GatePaths == {<<"login">>, <<"">>, <<"api", "keys">>, <<"api", "users", "1">>,
              <<"api", "properties">>}

\* Paths of pages: the public ones, and others outside /api/ ("/", a
\* property page, "/static" and "/api" without a trailing slash, a path below
\* a public one).
PublicPaths == {<<"health">>, <<"login">>, <<"auth", "login">>, <<"auth", "verify">>,
                <<"auth", "logout">>, <<"static", "style.css">>, <<"static", "">>,
                <<"passkey", "login", "begin">>, <<"passkey", "login", "finish">>,
                <<"cli", "auth">>, <<"cli", "auth", "verify">>,
                <<"cli", "auth", "complete">>}

PagePaths == PublicPaths \cup
             {<<"">>, <<"property", "1">>, <<"static">>, <<"api">>, <<"login", "x">>,
              <<"passkey", "register", "begin">>, <<"settings">>}

\* The gatekeeper scenario: one key is generated, owned by a user or by
\* nobody; requests present it or a string that differs in one character.
GateGenerated == {KeyTag \o <<"0", "0", "0", "0", "0", "0">>}

GateOwners == {"bob@example.com", ""}

GateKeyIDs == 1..Cardinality(GateGenerated)

GateKeys == GateGenerated \cup {KeyTag \o <<"1", "0", "0", "0", "0", "0">>}

\* An Authorization header is <<>> (absent) or <<scheme, credentials>>.
GateHeaders == {<<>>, <<"Basic", KeyTag>>} \cup {<<"Bearer", k>> : k \in GateKeys}

\* r.RemoteAddr is "IP:port".
RemoteAddrs == {<<"10.0.0.1", 40001>>}

\* One client on two connections.
ClientAddrs == RemoteAddrs \cup {<<"10.0.0.1", 40002>>}

\* Amounts by which the clock advances in one step of each scenario.  A token
\* (a session) issued at time c is unexpired before c + expiry, meets its
\* expiry timestamp after one advance and is past it after two.
TokenSteps == {tokenExpiry}

SessionSteps == {sessionExpiry}

\* In the gatekeeper scenario one advance of the clock takes every session
\* past its expiry and every recorded failure out of the window.
GateSteps == {sessionExpiry + rateLimitWindow}

\* In the limiter scenario the clock advances by half a window or by a whole
\* one, so that a recorded failure can be inside the window, exactly one
\* window old, or older.
LimiterSteps == {rateLimitWindow \div 2, rateLimitWindow}

\* The limiter scenario: bearer requests to the resource API from one address.
LimiterPaths == {<<"api", "properties">>}

LimiterHeaders == {<<"Bearer", k>> : k \in GateKeys}

VARIABLES
    now,          \* time.Now(), in seconds
    ticks,        \* number of clock advances so far
    auth_tokens,  \* table auth_tokens: rows [token, email, expires_at, used]
    tokenSeq,     \* number of values generateToken has produced
    issued,       \* token -> the address given to the Create that returned it
    redeemed,     \* token -> number of Validate calls that returned its address
    sessions,     \* table sessions: rows [id, email, expires_at]
    sessionSeq,   \* number of values generateSessionID has produced
    sessIssued,   \* session id -> the address given to the Create that set it
    destroyed,    \* session ids for which a Destroy has returned
    api_keys,     \* table api_keys: rows [id, name, key_prefix, key_hash, email, last_used_at]
    keySeq,       \* AUTOINCREMENT counter of api_keys
    keyIssued,    \* raw key -> [id, email] of the Create that returned it
    revoked,      \* key ids for which a Delete has returned without error
    attempts,     \* apiKeyLimiter.attempts: RemoteAddr -> failure times
    authorized_users,     \* table authorized_users: rows [id, email]
    userSeq,              \* AUTOINCREMENT counter of authorized_users
    userAdded,            \* user id -> the address given to the Add that returned it
    userDeleted,          \* user ids for which a Delete has succeeded
    passkey_credentials,  \* table passkey_credentials: rows [id, email]
    passkeySeq,           \* number of credentials registered so far
    loginSessionData,     \* passkeyHandlers.loginSessionData: <<>> (nil) or <<challenge>>
    challengeSeq,         \* number of challenges BeginDiscoverableLogin has produced
    regSessions,          \* passkeyHandlers.regSessions: address -> <<>> (no entry) or <<challenge>>
    regIssued,            \* challenge i of wan.BeginRegistration was made for address regIssued[i]
    pc, req, res

tokenVars == <<auth_tokens, tokenSeq, issued, redeemed>>

sessionVars == <<sessions, sessionSeq, sessIssued, destroyed>>

keyVars == <<api_keys, keySeq, keyIssued, revoked>>

dirVars == <<authorized_users, userSeq, userAdded, userDeleted>>

ceremonyVars == <<loginSessionData, challengeSeq, regSessions, regIssued>>

userVars == <<dirVars, passkey_credentials, passkeySeq, ceremonyVars>>

vars == <<now, ticks, userVars, tokenVars, sessionVars, keyVars, attempts, pc, req, res>>

\* ------------------------------------------------------ calls and results
\* A call in progress: its arguments, the local variable email of
\* APIKeyStore.Validate, and seen: what the store held for the presented
\* credential when the call began (kept to compare the outcome with it).
\* A cookie is <<>> (the request has no hf_session cookie) or <<id>>.
NoReq == [op |-> "none", token |-> 0, cookie |-> <<>>, key |-> <<>>,
          path |-> <<>>, hdr |-> <<>>, addr |-> <<>>,
          email |-> "", seen |-> "absent", id |-> 0,
          page |-> "", hp |-> FALSE, method |-> "", arg |-> "",
          challenge |-> 0, handle |-> <<>>, taken |-> 0, sent |-> TRUE]

\* What a rendered page shows: loginData / cliAuthData.
NoBody == [page |-> "", Message |-> "", Error |-> "", HasPasskeys |-> FALSE]

NoRes == [ok |-> FALSE, email |-> "", err |-> "none", status |-> 0, body |-> NoBody]

\* A store call returns a value (ok) or an error.
Ok(email) == [ok |-> TRUE, email |-> email, err |-> "", status |-> 0, body |-> NoBody]

Fail(msg) == [ok |-> FALSE, email |-> "", err |-> msg, status |-> 0, body |-> NoBody]

Forward_NoEmail(email) ==
    [ok |-> TRUE, email |-> "", err |-> "", status |-> 0, body |-> NoBody]

\* The gatekeeper calls next.ServeHTTP with email in the request context
\* ("" when it attaches none), or answers with a status itself.
Forward(email) == [ok |-> TRUE, email |-> email, err |-> "", status |-> 0, body |-> NoBody]

Respond(status, msg) == [ok |-> FALSE, email |-> "", err |-> msg, status |-> status,
                         body |-> NoBody]

\* h.render(w, page, data): a page with status 200.
Render(page, message, error, hp) ==
    [ok |-> TRUE, email |-> "", err |-> "", status |-> StatusOK,
     body |-> [page |-> page, Message |-> message, Error |-> error, HasPasskeys |-> hp]]

\* apiJSON(w, data, status)
RespondJSON(status) == [ok |-> TRUE, email |-> "", err |-> "", status |-> status,
                        body |-> NoBody]

\* Goroutine p moves on inside its call.
Goto(p, label) ==
    /\ pc' = [pc EXCEPT ![p] = label]
    /\ req' = req
    /\ res' = res

\* The call of goroutine p ends with r; req[p] keeps the call next to its
\* result until p's next call.
Return(p, r) ==
    /\ pc' = [pc EXCEPT ![p] = "idle"]
    /\ req' = req
    /\ res' = [res EXCEPT ![p] = r]

\* ------------------------------------------------------ path classification
\* strings.HasPrefix(path, "/api/")
HasPrefixAPI(path) == Len(path) >= 2 /\ path[1] = "api"

isPublicPath_All(path) == TRUE

\* isPublicPath as it was before /health and the CLI pages were added.
isPublicPath_Older(path) ==
    \/ path \in {<<"login">>, <<"auth", "login">>, <<"auth", "verify">>, <<"auth", "logout">>}
    \/ (Len(path) >= 2 /\ path[1] = "static")
    \/ path \in {<<"passkey", "login", "begin">>, <<"passkey", "login", "finish">>}

isPublicPath(path) ==
    \/ path = <<"health">>
    \/ path \in {<<"login">>, <<"auth", "login">>, <<"auth", "verify">>, <<"auth", "logout">>}
    \/ (Len(path) >= 2 /\ path[1] = "static")
    \/ path \in {<<"passkey", "login", "begin">>, <<"passkey", "login", "finish">>}
    \/ path \in {<<"cli", "auth">>, <<"cli", "auth", "verify">>, <<"cli", "auth", "complete">>}

isAPIKeyManagementPath_KeysOnly(path) ==
    \/ path = <<"api", "keys">>
    \/ (Len(path) >= 3 /\ path[1] = "api" /\ path[2] = "keys")

isAPIKeyManagementPath(path) ==
    \/ path = <<"api", "keys">>
    \/ (Len(path) >= 3 /\ path[1] = "api" /\ path[2] = "keys")
    \/ path = <<"api", "users">>
    \/ (Len(path) >= 3 /\ path[1] = "api" /\ path[2] = "users")

\* authHeader != "" && strings.HasPrefix(authHeader, "Bearer ")
IsBearer(hdr) == Len(hdr) = 2 /\ hdr[1] = "Bearer"

\* strings.TrimPrefix(authHeader, "Bearer ")
BearerKey(hdr) == hdr[2]

\* ---------------------------------------------- what callers do on return
RequireAuthSkips_PublicOnly(path) == isPublicPath(path)

\* RequireAuth calls next.ServeHTTP without looking at the session for
\* public paths and for paths under /api/.
RequireAuthSkips(path) == isPublicPath(path) \/ HasPrefixAPI(path)

\* RequireAPIKey calls next.ServeHTTP, with email in the context ("" when it
\* attaches none): next is RequireAuth, which forwards to the mux or
\* validates the session.
ThroughRequireAuth(p, email) ==
    IF RequireAuthSkips(req[p].path)
    THEN Return(p, Forward(email))
    ELSE /\ pc' = [pc EXCEPT ![p] = "sv_select"]
         /\ req' = [req EXCEPT ![p].arg = "RequireAuth", ![p].email = email]
         /\ res' = res

\* The three callers of sessions.Validate in the middleware, and a direct
\* caller of SessionStore.Validate.
AfterSessionValidate(p, r) ==
    IF req[p].op = "UsersRoute"
    THEN \* handleUsersRoute
         IF r.ok
         THEN /\ pc' = [pc EXCEPT ![p] = "ur_admin"]
              /\ req' = [req EXCEPT ![p].email = r.email]
              /\ res' = res
         ELSE Return(p, Respond(StatusUnauthorized, "Unauthorized"))
    ELSE IF req[p].op \in {"BeginRegistration", "FinishRegistration"}
    THEN \* handleBeginRegistration / handleFinishRegistration
         IF r.ok
         THEN /\ pc' = [pc EXCEPT ![p] = IF req[p].op = "BeginRegistration"
                                         THEN "br_store" ELSE "fr_take"]
              /\ req' = [req EXCEPT ![p].email = r.email]
              /\ res' = res
         ELSE Return(p, Respond(StatusUnauthorized, "Unauthorized"))
    ELSE IF req[p].op = "CreateKey"
    THEN IF req[p].arg = ""
         THEN \* RequireAPIKey on a management path; next.ServeHTTP leads through
              \* RequireAuth and the mux to handleCreateKey, which validates again
              IF r.ok
              THEN /\ pc' = [pc EXCEPT ![p] = "sv_select"]
                   /\ req' = [req EXCEPT ![p].arg = "handler"]
                   /\ res' = res
              ELSE Return(p, Respond(StatusUnauthorized, "Unauthorized"))
         ELSE \* handleCreateKey: email = "" when the session is missing
              /\ pc' = [pc EXCEPT ![p] = "ck_create"]
              /\ req' = [req EXCEPT ![p].email = IF r.ok THEN r.email ELSE ""]
              /\ res' = res
    ELSE IF req[p].op = "CLIAuthComplete"
    THEN \* handleCLIAuthComplete
         IF r.ok
         THEN /\ pc' = [pc EXCEPT ![p] = "ca_create"]
              /\ req' = [req EXCEPT ![p].email = r.email]
              /\ res' = res
         ELSE Return(p, Respond(StatusSeeOther, "/cli/auth"))
    ELSE IF req[p].op # "Http" THEN Return(p, r)
    ELSE IF ~HasPrefixAPI(req[p].path) \/ req[p].arg = "RequireAuth"
    THEN \* RequireAuth
         IF r.ok THEN Return(p, Forward(req[p].email))
         ELSE Return(p, Respond(StatusSeeOther, "/login"))
    ELSE IF isAPIKeyManagementPath(req[p].path)
    THEN IF r.ok THEN ThroughRequireAuth(p, "")
         ELSE Return(p, Respond(StatusUnauthorized, "Unauthorized"))
    ELSE \* no bearer token: fall back to session auth
         IF r.ok THEN ThroughRequireAuth(p, r.email)
         ELSE Return(p, Respond(StatusUnauthorized, "Authorization required"))

\* The error page of handleVerify and of handleCLIAuthVerify.
VerifyError(page) ==
    IF page = "login.html"
    THEN "Invalid or expired login link. Please request a new one."
    ELSE "Invalid or expired login link. Please try again."

\* handleVerify / handleCLIAuthVerify after tokens.Validate returned, and a
\* direct caller of TokenStore.Validate.
AfterTokenValidate(p, r) ==
    IF req[p].op # "Verify" THEN Return(p, r)
    ELSE IF r.ok
    THEN /\ pc' = [pc EXCEPT ![p] = "vf_session"]
         /\ req' = [req EXCEPT ![p].email = r.email]
         /\ res' = res
    ELSE Return(p, Render(req[p].page, "", VerifyError(req[p].page), req[p].hp))

\* RequireAPIKey after apiKeys.Validate returned email, and a direct caller
\* of APIKeyStore.Validate.
AfterKeyValidate(p, email) ==
    IF req[p].op # "Http"
    THEN Return(p, [ok |-> email # "", email |-> email, err |-> "", status |-> 0,
                    body |-> NoBody])
    ELSE IF email = ""
    THEN Goto(p, "rl_record")
    ELSE ThroughRequireAuth(p, email)

\* ------------------------------------------------------------- TokenStore
\* generateToken: 32 fresh random bytes, hex encoded.
generateToken == tokenSeq + 1

\* Tokens a caller can present: a value that is no token (0) or a token
\* generateToken has returned (nobody guesses one in advance).
PresentedTokens == {0} \cup DOMAIN issued

TokenRows(tok) == {r \in auth_tokens : r.token = tok}

\* What a caller would find for tok at this moment.
TokenStatus(tok) ==
    IF TokenRows(tok) = {} THEN "absent"
    ELSE LET r == CHOOSE x \in TokenRows(tok) : TRUE IN
         IF r.used = 1 THEN "used"
         ELSE IF r.expires_at < now THEN "expired"
         ELSE IF r.expires_at = now THEN "due"
         ELSE "live"

SelectTokenEmail_NoWhere(tok) == {r.email : r \in auth_tokens}

\* SELECT email FROM auth_tokens WHERE token = ?
SelectTokenEmail(tok) == {r.email : r \in TokenRows(tok)}

TokenRedeemable_NoUsedCheck(r, tok) == r.token = tok /\ r.expires_at > now

TokenRedeemable_NoExpiryCheck(r, tok) == r.token = tok /\ r.used = 0

\* WHERE token = ? AND used = 0 AND expires_at > ?
TokenRedeemable(r, tok) == r.token = tok /\ r.used = 0 /\ r.expires_at > now

MarkUsed_NoOp(r) == r

\* SET used = 1
MarkUsed(r) == [r EXCEPT !.used = 1]

\* TokenStore.Create(email)
TokenCreate(email) ==
    /\ tokenSeq < MaxTokens
    /\ LET token == generateToken IN
        /\ auth_tokens' = auth_tokens \cup
              {[token |-> token, email |-> email,
                expires_at |-> now + tokenExpiry, used |-> 0]}
        /\ tokenSeq' = token
        /\ issued' = issued @@ (token :> email)
        /\ redeemed' = redeemed @@ (token :> 0)
    /\ UNCHANGED <<now, ticks, userVars, sessionVars, keyVars, attempts, pc, req, res>>

\* A goroutine enters TokenStore.Validate(token).
TokenValidateCall(p, tok) ==
    /\ pc[p] = "idle"
    /\ pc' = [pc EXCEPT ![p] = "tv_update"]
    /\ req' = [req EXCEPT ![p] = [NoReq EXCEPT !.op = "TokenValidate",
                                  !.token = tok, !.seen = TokenStatus(tok)]]
    /\ res' = [res EXCEPT ![p] = NoRes]
    /\ UNCHANGED <<now, ticks, userVars, tokenVars, sessionVars, keyVars, attempts>>

TokenValidateUpdate_Distinct(p) ==
    /\ pc[p] = "tv_update"
    /\ LET hit == {r \in auth_tokens : TokenRedeemable(r, req[p].token)} IN
        /\ auth_tokens' = (auth_tokens \ hit) \cup {MarkUsed(r) : r \in hit}
        /\ IF hit = {}
           THEN AfterTokenValidate(p, Fail(CASE TokenStatus(req[p].token) = "absent" -> "invalid token"
                                 [] TokenStatus(req[p].token) = "used" -> "token already used"
                                 [] OTHER -> "token expired"))
           ELSE Goto(p, "tv_select")
    /\ UNCHANGED <<now, ticks, userVars, tokenSeq, issued, redeemed, sessionVars, keyVars, attempts>>

\* The conditional UPDATE and the RowsAffected check.
TokenValidateUpdate(p) ==
    /\ pc[p] = "tv_update"
    /\ LET hit == {r \in auth_tokens : TokenRedeemable(r, req[p].token)} IN
        /\ auth_tokens' = (auth_tokens \ hit) \cup {MarkUsed(r) : r \in hit}
        /\ IF hit = {}
           THEN AfterTokenValidate(p, Fail("invalid, expired, or already used token"))
           ELSE Goto(p, "tv_select")
    /\ UNCHANGED <<now, ticks, userVars, tokenSeq, issued, redeemed, sessionVars, keyVars, attempts>>

\* The SELECT of the owning address, and the return.
TokenValidateSelect(p) ==
    /\ pc[p] = "tv_select"
    /\ LET found == SelectTokenEmail(req[p].token) IN
        IF found = {}
        THEN /\ AfterTokenValidate(p, Fail("reading token email"))
             /\ redeemed' = redeemed
        ELSE /\ AfterTokenValidate(p, Ok(CHOOSE e \in found : TRUE))
             /\ redeemed' = [redeemed EXCEPT ![req[p].token] = IF @ < 2 THEN @ + 1 ELSE 2]
    /\ UNCHANGED <<now, ticks, userVars, auth_tokens, tokenSeq, issued, sessionVars, keyVars, attempts>>

CleanupTokens_UnusedOnly(rows) == {r \in rows : ~(r.expires_at < now /\ r.used = 0)}

\* DELETE FROM auth_tokens WHERE expires_at < ?
CleanupTokens(rows) == {r \in rows : ~(r.expires_at < now)}

\* TokenStore.Cleanup()
TokenCleanup ==
    /\ auth_tokens' = CleanupTokens(auth_tokens)
    /\ UNCHANGED <<now, ticks, userVars, tokenSeq, issued, redeemed, sessionVars, keyVars, attempts, pc, req, res>>

\* ----------------------------------------------------------- SessionStore
\* generateSessionID: 32 fresh random bytes, hex encoded.
generateSessionID == sessionSeq + 1

\* Cookies a request can carry: none, a value that is no session id (0), or
\* an id generateSessionID has returned (nobody guesses one in advance).
PresentedCookies == {<<>>, <<0>>} \cup {<<i>> : i \in DOMAIN sessIssued}

GateCookies == {<<>>} \cup {<<i>> : i \in DOMAIN sessIssued}

\* SELECT email, expires_at FROM sessions WHERE id = ?
SessionRows(id) == {r \in sessions : r.id = id}

SessionExpired_Never(r) == FALSE

\* time.Now().After(expiresAt)
SessionExpired(r) == now > r.expires_at

\* What a caller would find for the cookie at this moment.
SessionStatus(cookie) ==
    IF cookie = <<>> THEN "nocookie"
    ELSE IF cookie[1] \in destroyed THEN "destroyed"
    ELSE IF SessionRows(cookie[1]) = {} THEN "absent"
    ELSE IF \E r \in SessionRows(cookie[1]) : now > r.expires_at THEN "expired"
    ELSE "valid"

\* SessionStore.Create(w, email); the cookie it sets carries the new id.
SessionCreate(email) ==
    /\ sessionSeq < MaxSessions
    /\ LET id == generateSessionID IN
        /\ sessions' = sessions \cup
              {[id |-> id, email |-> email, expires_at |-> now + sessionExpiry]}
        /\ sessionSeq' = id
        /\ sessIssued' = sessIssued @@ (id :> email)
    /\ UNCHANGED <<now, ticks, userVars, tokenVars, destroyed, keyVars, attempts, pc, req, res>>

\* A goroutine enters SessionStore.Validate(r).
SessionValidateCall(p, cookie) ==
    /\ pc[p] = "idle"
    /\ pc' = [pc EXCEPT ![p] = "sv_select"]
    /\ req' = [req EXCEPT ![p] = [NoReq EXCEPT !.op = "SessionValidate",
                                  !.cookie = cookie, !.seen = SessionStatus(cookie)]]
    /\ res' = [res EXCEPT ![p] = NoRes]
    /\ UNCHANGED <<now, ticks, userVars, tokenVars, sessionVars, keyVars, attempts>>

\* r.Cookie, the SELECT and the expiry test.
SessionValidateSelect(p) ==
    /\ pc[p] = "sv_select"
    /\ LET cookie == req[p].cookie IN
        IF cookie = <<>>
        THEN AfterSessionValidate(p, Fail("no session cookie"))
        ELSE IF SessionRows(cookie[1]) = {}
        THEN AfterSessionValidate(p, Fail("invalid session"))
        ELSE LET r == CHOOSE x \in SessionRows(cookie[1]) : TRUE IN
             IF SessionExpired(r)
             THEN Goto(p, "sv_delete")
             ELSE AfterSessionValidate(p, Ok(r.email))
    /\ UNCHANGED <<now, ticks, userVars, tokenVars, sessionVars, keyVars, attempts>>

DeleteSession_NoOp(id) == sessions

\* DELETE FROM sessions WHERE id = ?
DeleteSession(id) == sessions \ SessionRows(id)

\* The clean-up of the expired session, and the return.
SessionValidateDelete(p) ==
    /\ pc[p] = "sv_delete"
    /\ sessions' = DeleteSession(req[p].cookie[1])
    /\ AfterSessionValidate(p, Fail("session expired"))
    /\ UNCHANGED <<now, ticks, userVars, tokenVars, sessionSeq, sessIssued, destroyed, keyVars, attempts>>

DestroySession_NoOp(id) == sessions

\* DELETE FROM sessions WHERE id = ? (in Destroy)
DestroySession(id) == sessions \ SessionRows(id)

\* SessionStore.Destroy(w, r): one statement, or none without a cookie.
SessionDestroy(p, cookie) ==
    /\ pc[p] = "idle"
    /\ req' = [req EXCEPT ![p] = [NoReq EXCEPT !.op = "SessionDestroy",
                                  !.cookie = cookie, !.seen = SessionStatus(cookie)]]
    /\ res' = [res EXCEPT ![p] = Ok("")]
    /\ IF cookie = <<>>
       THEN UNCHANGED <<sessions, destroyed>>
       ELSE /\ sessions' = DestroySession(cookie[1])
            /\ destroyed' = destroyed \cup {cookie[1]}
    /\ UNCHANGED <<now, ticks, userVars, tokenVars, sessionSeq, sessIssued, keyVars, attempts, pc>>

\* SessionStore.Cleanup()
SessionCleanup ==
    /\ sessions' = {r \in sessions : ~(r.expires_at < now)}
    /\ UNCHANGED <<now, ticks, userVars, tokenVars, sessionSeq, sessIssued, destroyed, keyVars, attempts, pc, req, res>>

\* ------------------------------------------------------------ APIKeyStore
\* hashAPIKey: the hex SHA-256 digest, a one-to-one image of the key.
hashAPIKey(key) == <<"sha256", key>>

KeyPrefix_Whole(raw) == raw

\* raw[:8]
KeyPrefix(raw) == SubSeq(raw, 1, 8)

KeyMatches_ByPrefix(r, raw) == Len(raw) >= 8 /\ r.key_prefix = SubSeq(raw, 1, 8)

\* WHERE key_hash = ?
KeyMatches(r, raw) == r.key_hash = hashAPIKey(raw)

KeyIDs == 1..Cardinality(GeneratedKeys)

\* APIKeyStore.Create(name, email)
\* raw is the value generateAPIKey returns, a fresh one.
KeyCreate(name, email, raw) ==
    /\ raw \notin DOMAIN keyIssued
    /\ LET id == keySeq + 1 IN
        /\ api_keys' = api_keys \cup
              {[id |-> id, name |-> name, key_prefix |-> KeyPrefix(raw),
                key_hash |-> hashAPIKey(raw), email |-> email,
                last_used_at |-> <<>>]}
        /\ keySeq' = id
        /\ keyIssued' = keyIssued @@ (raw :> [id |-> id, email |-> email])
        /\ UNCHANGED <<now, ticks, userVars, tokenVars, sessionVars, revoked, attempts, pc, req, res>>

DeleteKeyRows_NoOp(id) == api_keys

\* DELETE FROM api_keys WHERE id = ?
DeleteKeyRows(id) == {r \in api_keys : r.id # id}

\* APIKeyStore.Delete(id), called by handleDeleteKey for a request whose
\* session belongs to caller; the code makes no use of caller.
KeyDelete(p, id, caller) ==
    /\ pc[p] = "idle"
    /\ LET hit == {r \in api_keys : r.id = id} IN
        /\ api_keys' = DeleteKeyRows(id)
        /\ revoked' = IF hit = {} THEN revoked ELSE revoked \cup {id}
        /\ res' = [res EXCEPT ![p] = IF hit = {} THEN Fail("key not found") ELSE Ok("")]
    /\ req' = [req EXCEPT ![p] = [NoReq EXCEPT !.op = "KeyDelete", !.id = id,
                                  !.email = caller]]
    /\ UNCHANGED <<now, ticks, userVars, tokenVars, sessionVars, keySeq, keyIssued, attempts, pc>>

\* What a caller would find for the raw key at this moment: never issued,
\* revoked, issued and not used before this moment, or used at an earlier time.
KeyStatus(raw) ==
    IF raw \notin DOMAIN keyIssued THEN "absent"
    ELSE IF keyIssued[raw].id \in revoked THEN "revoked"
    ELSE IF \E r \in api_keys : /\ r.id = keyIssued[raw].id
                                /\ r.last_used_at # <<>>
                                /\ r.last_used_at[1] < now
    THEN "aged"
    ELSE "new"

\* A goroutine enters APIKeyStore.Validate(rawKey).
KeyValidateCall(p, raw) ==
    /\ pc[p] = "idle"
    /\ pc' = [pc EXCEPT ![p] = "kv_select"]
    /\ req' = [req EXCEPT ![p] = [NoReq EXCEPT !.op = "KeyValidate", !.key = raw,
                                  !.seen = KeyStatus(raw)]]
    /\ res' = [res EXCEPT ![p] = NoRes]
    /\ UNCHANGED <<now, ticks, userVars, tokenVars, sessionVars, keyVars, attempts>>

\* SELECT email FROM api_keys WHERE key_hash = ?
KeyValidateSelect(p) ==
    /\ pc[p] = "kv_select"
    /\ LET found == {r \in api_keys : KeyMatches(r, req[p].key)} IN
        IF found = {}
        THEN AfterKeyValidate(p, "")
        ELSE /\ pc' = [pc EXCEPT ![p] = "kv_update"]
             /\ req' = [req EXCEPT ![p].email = (CHOOSE r \in found : TRUE).email]
             /\ res' = res
    /\ UNCHANGED <<now, ticks, userVars, tokenVars, sessionVars, keyVars, attempts>>

KeyValidateUpdate_NoTouch(p) ==
    /\ pc[p] = "kv_update"
    /\ api_keys' = api_keys
    /\ AfterKeyValidate(p, req[p].email)
    /\ UNCHANGED <<now, ticks, userVars, tokenVars, sessionVars, keySeq, keyIssued, revoked, attempts>>

\* UPDATE api_keys SET last_used_at = ? WHERE key_hash = ?, and the return.
KeyValidateUpdate(p) ==
    /\ pc[p] = "kv_update"
    /\ api_keys' = {IF KeyMatches(r, req[p].key)
                    THEN [r EXCEPT !.last_used_at = <<now>>] ELSE r : r \in api_keys}
    /\ AfterKeyValidate(p, req[p].email)
    /\ UNCHANGED <<now, ticks, userVars, tokenVars, sessionVars, keySeq, keyIssued, revoked, attempts>>

\* ------------------------------------------------------------ rate limiter
\* The entries of the address that are newer than the window.
PruneAttempts(addr) == SelectSeq(attempts[addr], LAMBDA t : t > now - rateLimitWindow)

OverLimit_Never(n) == FALSE

OverLimit_Strict(n) == n > rateLimitMaxFail

\* len(valid) >= rateLimitMaxFail
OverLimit(n) == n >= rateLimitMaxFail

RateCheck_NoReject(p) ==
    /\ pc[p] = "rl_check"
    /\ attempts' = [attempts EXCEPT ![req[p].addr] = PruneAttempts(req[p].addr)]
    /\ Goto(p, "kv_select")
    /\ UNCHANGED <<now, ticks, userVars, tokenVars, sessionVars, keyVars>>

\* The limiter as it was when it counted every bearer attempt before the key
\* was looked at.
RateCheck_CountAll(p) ==
    /\ pc[p] = "rl_check"
    /\ LET valid == Append(PruneAttempts(req[p].addr), now) IN
        /\ attempts' = [attempts EXCEPT ![req[p].addr] = valid]
        /\ IF Len(valid) > rateLimitMaxFail
           THEN Return(p, Respond(StatusTooManyRequests, "Too many requests"))
           ELSE Goto(p, "kv_select")
    /\ UNCHANGED <<now, ticks, userVars, tokenVars, sessionVars, keyVars>>

\* rateLimiter.isLimited(ip), called by RequireAPIKey before the key is checked.
RateCheck(p) ==
    /\ pc[p] = "rl_check"
    /\ LET valid == PruneAttempts(req[p].addr) IN
        /\ attempts' = [attempts EXCEPT ![req[p].addr] = valid]
        /\ IF OverLimit(Len(valid))
           THEN Return(p, Respond(StatusTooManyRequests, "Too many requests"))
           ELSE Goto(p, "kv_select")
    /\ UNCHANGED <<now, ticks, userVars, tokenVars, sessionVars, keyVars>>

\* A recording that writes the list anew instead of appending to it.
RecordFailure_Overwrite(p) ==
    /\ pc[p] = "rl_record"
    /\ attempts' = [attempts EXCEPT ![req[p].addr] = <<now>>]
    /\ Return(p, Respond(StatusUnauthorized, "Invalid API key"))
    /\ UNCHANGED <<now, ticks, userVars, tokenVars, sessionVars, keyVars>>

\* rateLimiter.recordFailure(ip), and the answer to an invalid key.
RecordFailure(p) ==
    /\ pc[p] = "rl_record"
    /\ attempts' = [attempts EXCEPT ![req[p].addr] = Append(@, now)]
    /\ Return(p, Respond(StatusUnauthorized, "Invalid API key"))
    /\ UNCHANGED <<now, ticks, userVars, tokenVars, sessionVars, keyVars>>

\* -------------------------------------------------------------- gatekeeper
\* A request enters RequireAPIKey(RequireAuth(mux)): the path and header
\* tests up to the first use of a store or of the limiter.
HttpRequest(p, path, hdr, cookie, addr) ==
    /\ pc[p] = "idle"
    /\ LET r == [NoReq EXCEPT !.op = "Http", !.path = path, !.hdr = hdr,
                              !.cookie = cookie, !.addr = addr,
                              !.key = IF IsBearer(hdr) THEN BearerKey(hdr) ELSE <<>>]
           next == IF ~HasPrefixAPI(path)
                   THEN \* RequireAPIKey passes the request to RequireAuth
                        IF isPublicPath(path) THEN "idle" ELSE "sv_select"
                   ELSE IF isAPIKeyManagementPath(path) \/ ~IsBearer(hdr)
                   THEN "sv_select"
                   ELSE "rl_check"
       IN /\ pc' = [pc EXCEPT ![p] = next]
          /\ req' = [req EXCEPT ![p] = r]
          /\ res' = [res EXCEPT ![p] = IF next = "idle" THEN Forward("") ELSE NoRes]
    /\ UNCHANGED <<now, ticks, userVars, tokenVars, sessionVars, keyVars, attempts>>

\* -------------------------------------------------------------- UserStore
\* strings.ToLower, on the addresses of the scenarios.
ToLower(str) ==
    CASE str = "Bob@Example.COM" -> "bob@example.com"
      [] str = "Admin@Example.COM" -> "admin@example.com"
      [] OTHER -> str

\* strings.TrimSpace, on the addresses of the scenarios.
TrimSpace(str) == IF str = " " THEN "" ELSE str

IsAuthorized_Anyone(email) == TRUE

\* UserStore.IsAuthorized(email)
IsAuthorized(email) ==
    \/ ToLower(email) = adminEmail
    \/ \E r \in authorized_users : ToLower(r.email) = ToLower(email)

IsAdmin_Anyone(email) == TRUE

\* UserStore.IsAdmin(email)
IsAdmin(email) == ToLower(email) = adminEmail

\* UserStore.AllEmails()
AllEmails == {adminEmail} \cup {ToLower(r.email) : r \in authorized_users}

\* INSERT INTO authorized_users (email, ...), with the UNIQUE constraint on
\* email deciding whether it can be done.
UserExists(email) == \E r \in authorized_users : r.email = email

InsertUser(email) == authorized_users \cup {[id |-> userSeq + 1, email |-> email]}

DeleteUserRows_NoOp(id) == authorized_users

\* DELETE FROM authorized_users WHERE id = ?
DeleteUserRows(id) == {r \in authorized_users : r.id # id}

\* UserStore.Add(email, ...), when it succeeds.
UserAdd(email) ==
    /\ userSeq < MaxUsers
    /\ LET e == ToLower(TrimSpace(email)) IN
        /\ e # ""
        /\ ~UserExists(e)
        /\ authorized_users' = InsertUser(e)
        /\ userSeq' = userSeq + 1
        /\ userAdded' = userAdded @@ (userSeq + 1 :> email)
        /\ userDeleted' = userDeleted
    /\ UNCHANGED <<now, ticks, passkey_credentials, passkeySeq, ceremonyVars, tokenVars, sessionVars,
                   keyVars, attempts, pc, req, res>>

\* UserStore.Delete(id), when it succeeds.
UserDelete(id) ==
    /\ \E r \in authorized_users : r.id = id
    /\ authorized_users' = DeleteUserRows(id)
    /\ userDeleted' = userDeleted \cup {id}
    /\ UNCHANGED <<now, ticks, userSeq, userAdded, passkey_credentials, passkeySeq, ceremonyVars, tokenVars,
                   sessionVars, keyVars, attempts, pc, req, res>>

\* ----------------------------------------------------------- PasskeyStore
\* PasskeyStore.Save(email, name, cred)
PasskeySave(email) ==
    /\ passkeySeq < MaxPasskeys
    /\ passkey_credentials' = passkey_credentials \cup
          {[id |-> passkeySeq + 1, email |-> email]}
    /\ passkeySeq' = passkeySeq + 1
    /\ UNCHANGED <<now, ticks, dirVars, ceremonyVars, tokenVars, sessionVars,
                   keyVars, attempts, pc, req, res>>

\* PasskeyStore.ListByEmail(email)
ListByEmail(email) == {c \in passkey_credentials : c.email = email}

DeletePasskeyRows_AnyOwner(id, email) == {c \in passkey_credentials : c.id # id}

\* DELETE FROM passkey_credentials WHERE id = ? AND email = ?
DeletePasskeyRows(id, email) ==
    {c \in passkey_credentials : ~(c.id = id /\ c.email = email)}

\* PasskeyStore.Delete(id, email)
PasskeyDelete(p, id, email) ==
    /\ pc[p] = "idle"
    /\ passkey_credentials' = DeletePasskeyRows(id, email)
    /\ res' = [res EXCEPT ![p] = IF passkey_credentials' = passkey_credentials
                                 THEN Fail("credential not found")
                                 ELSE Ok("")]
    /\ req' = [req EXCEPT ![p] = [NoReq EXCEPT !.op = "PasskeyDelete", !.id = id,
                                  !.email = email]]
    /\ UNCHANGED <<now, ticks, dirVars, passkeySeq, ceremonyVars, tokenVars, sessionVars, keyVars,
                   attempts, pc>>

\* authHandlers.hasPasskeys(): some address of AllEmails has a credential.
hasPasskeys == \E e \in AllEmails : \E c \in passkey_credentials : c.email = e

\* ---------------------------------------------------------- login handlers
\* handleLoginSubmit / submitEmail up to the test for an empty address.
LoginSubmit(p, page, submitted) ==
    /\ pc[p] = "idle"
    /\ LET email == TrimSpace(ToLower(submitted))
           hp == hasPasskeys
       IN /\ req' = [req EXCEPT ![p] = [NoReq EXCEPT !.op = "LoginSubmit", !.page = page,
                                        !.arg = submitted, !.email = email, !.hp = hp]]
          /\ IF email = ""
             THEN /\ pc' = pc
                  /\ res' = [res EXCEPT ![p] = Render(page, "", "Email is required", hp)]
             ELSE /\ pc' = [pc EXCEPT ![p] = "ls_check"]
                  /\ res' = [res EXCEPT ![p] = NoRes]
    /\ UNCHANGED <<now, ticks, userVars, tokenVars, sessionVars, keyVars, attempts>>

LoginAuthorize_Reveal(p) ==
    /\ pc[p] = "ls_check"
    /\ IF IsAuthorized(req[p].email)
       THEN Goto(p, "ls_create")
       ELSE Return(p, Render(req[p].page, "", "Email is not registered", req[p].hp))
    /\ UNCHANGED <<now, ticks, userVars, tokenVars, sessionVars, keyVars, attempts>>

LoginAuthorize_Always(p) ==
    /\ pc[p] = "ls_check"
    /\ Goto(p, "ls_create")
    /\ UNCHANGED <<now, ticks, userVars, tokenVars, sessionVars, keyVars, attempts>>

\* if h.users.IsAuthorized(email)
LoginAuthorize(p) ==
    /\ pc[p] = "ls_check"
    /\ IF IsAuthorized(req[p].email)
       THEN Goto(p, "ls_create")
       ELSE Return(p, Render(req[p].page, successMsg, "", req[p].hp))
    /\ UNCHANGED <<now, ticks, userVars, tokenVars, sessionVars, keyVars, attempts>>

\* A handler that takes the token back when the mail could not be sent.
LoginIssue_RevokeUnsent(p, sent) ==
    /\ pc[p] = "ls_create"
    /\ tokenSeq < MaxTokens
    /\ LET token == generateToken IN
        /\ auth_tokens' = auth_tokens \cup
              {[token |-> token, email |-> req[p].email,
                expires_at |-> now + tokenExpiry, used |-> IF sent THEN 0 ELSE 1]}
        /\ tokenSeq' = token
        /\ issued' = issued @@ (token :> req[p].email)
        /\ redeemed' = redeemed @@ (token :> 0)
        /\ req' = [req EXCEPT ![p].token = token, ![p].sent = sent]
    /\ pc' = [pc EXCEPT ![p] = "idle"]
    /\ res' = [res EXCEPT ![p] = Render(req[p].page, successMsg, "", req[p].hp)]
    /\ UNCHANGED <<now, ticks, userVars, sessionVars, keyVars, attempts>>

\* h.tokens.Create(email), the mail, and the page.  sent tells whether
\* SendMagicLink / SendCLIMagicLink returned without error; the handler
\* logs an error and goes on.  req[p] keeps the token and sent.
LoginIssue(p, sent) ==
    /\ pc[p] = "ls_create"
    /\ tokenSeq < MaxTokens
    /\ LET token == generateToken IN
        /\ auth_tokens' = auth_tokens \cup
              {[token |-> token, email |-> req[p].email,
                expires_at |-> now + tokenExpiry, used |-> 0]}
        /\ tokenSeq' = token
        /\ issued' = issued @@ (token :> req[p].email)
        /\ redeemed' = redeemed @@ (token :> 0)
        /\ req' = [req EXCEPT ![p].token = token, ![p].sent = sent]
    /\ pc' = [pc EXCEPT ![p] = "idle"]
    /\ res' = [res EXCEPT ![p] = Render(req[p].page, successMsg, "", req[p].hp)]
    /\ UNCHANGED <<now, ticks, userVars, sessionVars, keyVars, attempts>>

\* handleVerify / handleCLIAuthVerify up to tokens.Validate.
Verify(p, page, tok) ==
    /\ pc[p] = "idle"
    /\ pc' = [pc EXCEPT ![p] = "tv_update"]
    /\ req' = [req EXCEPT ![p] = [NoReq EXCEPT !.op = "Verify", !.page = page,
                                  !.token = tok, !.seen = TokenStatus(tok),
                                  !.hp = hasPasskeys]]
    /\ res' = [res EXCEPT ![p] = NoRes]
    /\ UNCHANGED <<now, ticks, userVars, tokenVars, sessionVars, keyVars, attempts>>

\* h.sessions.Create(w, email) and the redirect.
VerifySession(p) ==
    /\ pc[p] = "vf_session"
    /\ sessionSeq < MaxSessions
    /\ LET id == generateSessionID IN
        /\ sessions' = sessions \cup
              {[id |-> id, email |-> req[p].email, expires_at |-> now + sessionExpiry]}
        /\ sessionSeq' = id
        /\ sessIssued' = sessIssued @@ (id :> req[p].email)
    /\ Return(p, Respond(StatusSeeOther,
                         IF req[p].page = "login.html" THEN "/" ELSE "/cli/auth/complete"))
    /\ UNCHANGED <<now, ticks, userVars, tokenVars, destroyed, keyVars, attempts>>

\* ------------------------------------------------------- passkey login
\* PasskeyUser.WebAuthnID(): sha256 of the address.
WebAuthnID(email) == <<"sha256", email>>

\* handleBeginLogin: a fresh challenge goes into the one slot.
BeginLogin ==
    /\ challengeSeq < MaxChallenges
    /\ challengeSeq' = challengeSeq + 1
    /\ loginSessionData' = <<challengeSeq + 1>>
    /\ UNCHANGED <<now, ticks, dirVars, passkey_credentials, passkeySeq, regSessions, regIssued, tokenVars,
                   sessionVars, keyVars, attempts, pc, req, res>>

TakeLoginSession_Keep == loginSessionData

\* h.loginSessionData = nil
TakeLoginSession == <<>>

\* handleFinishLogin under the lock: the slot is read and emptied.  The
\* request carries an assertion: the challenge it answers, the user handle
\* and the id of the credential that signed it.
FinishLogin(p, challenge, handle, cred) ==
    /\ pc[p] = "idle"
    /\ loginSessionData' = TakeLoginSession
    /\ challengeSeq' = challengeSeq
    /\ LET r == [NoReq EXCEPT !.op = "FinishLogin", !.challenge = challenge,
                              !.handle = handle, !.id = cred,
                              !.taken = IF loginSessionData = <<>> THEN 0
                                        ELSE loginSessionData[1]]
       IN /\ req' = [req EXCEPT ![p] = r]
          /\ IF loginSessionData = <<>>
             THEN /\ pc' = pc
                  /\ res' = [res EXCEPT ![p] = Respond(StatusBadRequest, "No login in progress")]
             ELSE /\ pc' = [pc EXCEPT ![p] = "fl_verify"]
                  /\ res' = [res EXCEPT ![p] = NoRes]
    /\ UNCHANGED <<now, ticks, dirVars, passkey_credentials, passkeySeq, regSessions, regIssued, tokenVars,
                   sessionVars, keyVars, attempts>>

HandleMatches_Any(email, handle) == TRUE

\* string(user.WebAuthnID()) == string(userHandle)
HandleMatches(email, handle) == WebAuthnID(email) = handle

\* The handler given to FinishPasskeyLogin: the first address of AllEmails
\* (the admin's comes first) whose handle is the assertion's, <<>> if none.
LookupHandle(handle) ==
    IF HandleMatches(adminEmail, handle) THEN <<adminEmail>>
    ELSE IF \E e \in AllEmails : HandleMatches(e, handle)
    THEN <<CHOOSE e \in AllEmails : HandleMatches(e, handle)>>
    ELSE <<>>

\* h.wan.FinishPasskeyLogin(handler, *session, r): the handler looks the user
\* handle up among AllEmails and loads that address's credentials; the
\* library accepts the assertion when it answers the challenge of the
\* session and is signed by one of those credentials.
FinishVerify(p) ==
    /\ pc[p] = "fl_verify"
    /\ LET found == LookupHandle(req[p].handle) IN
        IF /\ found # <<>>
           /\ req[p].challenge = req[p].taken
           /\ \E c \in ListByEmail(found[1]) : c.id = req[p].id
        THEN /\ pc' = [pc EXCEPT ![p] = "fl_session"]
             /\ req' = [req EXCEPT ![p].email = found[1]]
             /\ res' = res
        ELSE Return(p, Respond(StatusUnauthorized, "Login failed"))
    /\ UNCHANGED <<now, ticks, userVars, tokenVars, sessionVars, keyVars, attempts>>

\* h.sessions.Create(w, loggedInEmail) and the answer {"status": "ok"}.
FinishSession(p) ==
    /\ pc[p] = "fl_session"
    /\ sessionSeq < MaxSessions
    /\ LET id == generateSessionID IN
        /\ sessions' = sessions \cup
              {[id |-> id, email |-> req[p].email, expires_at |-> now + sessionExpiry]}
        /\ sessionSeq' = id
        /\ sessIssued' = sessIssued @@ (id :> req[p].email)
    /\ Return(p, RespondJSON(StatusOK))
    /\ UNCHANGED <<now, ticks, userVars, tokenVars, destroyed, keyVars, attempts>>

\* ------------------------------------------------------- POST /api/keys
\* POST /api/keys enters RequireAPIKey(RequireAuth(mux)): the path is a
\* management path, so sessions.Validate comes first.
CreateKeyRequest(p, cookie) ==
    /\ pc[p] = "idle"
    /\ pc' = [pc EXCEPT ![p] = "sv_select"]
    /\ req' = [req EXCEPT ![p] = [NoReq EXCEPT !.op = "CreateKey", !.method = "POST",
                                  !.path = <<"api", "keys">>,
                                  !.cookie = cookie, !.seen = SessionStatus(cookie)]]
    /\ res' = [res EXCEPT ![p] = NoRes]
    /\ UNCHANGED <<now, ticks, userVars, tokenVars, sessionVars, keyVars, attempts>>

\* handleCreateKey: h.apiKeys.Create(name, email) and the answer 201 with
\* the raw key, kept in req[p].key.
CreateKeyStore(p, raw) ==
    /\ pc[p] = "ck_create"
    /\ raw \notin DOMAIN keyIssued
    /\ LET id == keySeq + 1 IN
        /\ api_keys' = api_keys \cup
              {[id |-> id, name |-> "API Key", key_prefix |-> KeyPrefix(raw),
                key_hash |-> hashAPIKey(raw), email |-> req[p].email,
                last_used_at |-> <<>>]}
        /\ keySeq' = id
        /\ keyIssued' = keyIssued @@ (raw :> [id |-> id, email |-> req[p].email])
    /\ pc' = [pc EXCEPT ![p] = "idle"]
    /\ req' = [req EXCEPT ![p].key = raw]
    /\ res' = [res EXCEPT ![p] = RespondJSON(StatusCreated)]
    /\ UNCHANGED <<now, ticks, userVars, tokenVars, sessionVars, revoked, attempts>>

\* ------------------------------------------------------ CLI completion page
\* A request reaches handleCLIAuthComplete (the path is public, so the
\* middleware forwards it as it is): sessions.Validate comes first.
CLIAuthComplete(p, cookie) ==
    /\ pc[p] = "idle"
    /\ pc' = [pc EXCEPT ![p] = "sv_select"]
    /\ req' = [req EXCEPT ![p] = [NoReq EXCEPT !.op = "CLIAuthComplete", !.page = "cli_auth.html",
                                  !.cookie = cookie, !.seen = SessionStatus(cookie)]]
    /\ res' = [res EXCEPT ![p] = NoRes]
    /\ UNCHANGED <<now, ticks, userVars, tokenVars, sessionVars, keyVars, attempts>>

\* h.apiKeys.Create("CLI", email) and the page that shows the raw key, kept
\* in req[p].key.
CLIAuthCreateKey(p, raw) ==
    /\ pc[p] = "ca_create"
    /\ raw \notin DOMAIN keyIssued
    /\ LET id == keySeq + 1 IN
        /\ api_keys' = api_keys \cup
              {[id |-> id, name |-> "CLI", key_prefix |-> KeyPrefix(raw),
                key_hash |-> hashAPIKey(raw), email |-> req[p].email,
                last_used_at |-> <<>>]}
        /\ keySeq' = id
        /\ keyIssued' = keyIssued @@ (raw :> [id |-> id, email |-> req[p].email])
    /\ pc' = [pc EXCEPT ![p] = "idle"]
    /\ req' = [req EXCEPT ![p].key = raw]
    /\ res' = [res EXCEPT ![p] = Render("cli_auth.html", "", "", FALSE)]
    /\ UNCHANGED <<now, ticks, userVars, tokenVars, sessionVars, revoked, attempts>>

\* -------------------------------------------------- passkey registration
\* A request reaches handleBeginRegistration: sessions.Validate comes first.
BeginRegistration(p, cookie) ==
    /\ pc[p] = "idle"
    /\ pc' = [pc EXCEPT ![p] = "sv_select"]
    /\ req' = [req EXCEPT ![p] = [NoReq EXCEPT !.op = "BeginRegistration",
                                  !.cookie = cookie, !.seen = SessionStatus(cookie)]]
    /\ res' = [res EXCEPT ![p] = NoRes]
    /\ UNCHANGED <<now, ticks, userVars, tokenVars, sessionVars, keyVars, attempts>>

StoreRegSession_First(email, session) ==
    IF regSessions[email] = <<>> THEN [regSessions EXCEPT ![email] = session]
    ELSE regSessions

\* h.regSessions[email] = session
StoreRegSession(email, session) == [regSessions EXCEPT ![email] = session]

\* wan.BeginRegistration makes a fresh challenge; under the lock it becomes
\* the state kept for the address; the creation options are the answer.
BeginRegistrationStore(p) ==
    /\ pc[p] = "br_store"
    /\ Len(regIssued) < MaxChallenges
    /\ regIssued' = Append(regIssued, req[p].email)
    /\ regSessions' = StoreRegSession(req[p].email, <<Len(regIssued) + 1>>)
    /\ pc' = [pc EXCEPT ![p] = "idle"]
    /\ req' = [req EXCEPT ![p].challenge = Len(regIssued) + 1]
    /\ res' = [res EXCEPT ![p] = RespondJSON(StatusOK)]
    /\ UNCHANGED <<now, ticks, dirVars, passkey_credentials, passkeySeq, loginSessionData,
                   challengeSeq, tokenVars, sessionVars, keyVars, attempts>>

\* A request reaches handleFinishRegistration with a client response that
\* answers the given challenge: sessions.Validate comes first.
FinishRegistration(p, cookie, challenge) ==
    /\ pc[p] = "idle"
    /\ pc' = [pc EXCEPT ![p] = "sv_select"]
    /\ req' = [req EXCEPT ![p] = [NoReq EXCEPT !.op = "FinishRegistration",
                                  !.cookie = cookie, !.seen = SessionStatus(cookie),
                                  !.challenge = challenge]]
    /\ res' = [res EXCEPT ![p] = NoRes]
    /\ UNCHANGED <<now, ticks, userVars, tokenVars, sessionVars, keyVars, attempts>>

TakeRegSession_Keep(email) == regSessions

\* delete(h.regSessions, email)
TakeRegSession(email) == [regSessions EXCEPT ![email] = <<>>]

\* handleFinishRegistration under the lock: the state of the address is read
\* and removed.
FinishRegistrationTake(p) ==
    /\ pc[p] = "fr_take"
    /\ regSessions' = TakeRegSession(req[p].email)
    /\ IF regSessions[req[p].email] = <<>>
       THEN Return(p, Respond(StatusBadRequest, "No registration in progress"))
       ELSE /\ pc' = [pc EXCEPT ![p] = "fr_finish"]
            /\ req' = [req EXCEPT ![p].taken = regSessions[req[p].email][1]]
            /\ res' = res
    /\ UNCHANGED <<now, ticks, dirVars, passkey_credentials, passkeySeq, loginSessionData,
                   challengeSeq, regIssued, tokenVars, sessionVars, keyVars, attempts>>

\* h.wan.FinishRegistration(user, *session, r) accepts a response that
\* answers the challenge of the session; h.passkeys.Save stores the
\* credential it returns.
FinishRegistrationSave(p) ==
    /\ pc[p] = "fr_finish"
    /\ IF req[p].challenge = req[p].taken
       THEN /\ passkeySeq < MaxPasskeys
            /\ passkey_credentials' = passkey_credentials \cup
                   {[id |-> passkeySeq + 1, email |-> req[p].email]}
            /\ passkeySeq' = passkeySeq + 1
            /\ Return(p, RespondJSON(StatusOK))
       ELSE /\ UNCHANGED <<passkey_credentials, passkeySeq>>
            /\ Return(p, Respond(StatusBadRequest, "Registration failed"))
    /\ UNCHANGED <<now, ticks, dirVars, ceremonyVars, tokenVars, sessionVars, keyVars, attempts>>

\* ----------------------------------------------------------- user handlers
\* A request reaches handleUsersRoute: method is its HTTP method, id the
\* number in /api/users/{id} (0 for /api/users), arg the email of the body.
UsersRoute(p, cookie, method, id, arg) ==
    /\ pc[p] = "idle"
    /\ pc' = [pc EXCEPT ![p] = "sv_select"]
    /\ req' = [req EXCEPT ![p] = [NoReq EXCEPT !.op = "UsersRoute", !.cookie = cookie,
                                  !.method = method, !.id = id, !.arg = arg,
                                  !.seen = SessionStatus(cookie)]]
    /\ res' = [res EXCEPT ![p] = NoRes]
    /\ UNCHANGED <<now, ticks, userVars, tokenVars, sessionVars, keyVars, attempts>>

\* handleUsersRoute after the session check: the admin test, the routing and
\* the statement of listUsers, addUser or deleteUser.
UsersRouteExec(p) ==
    /\ pc[p] = "ur_admin"
    /\ IF ~IsAdmin(req[p].email)
       THEN /\ Return(p, Respond(StatusForbidden, "admin access required"))
            /\ UNCHANGED dirVars
       ELSE IF req[p].id = 0 /\ req[p].method = "GET"
       THEN /\ Return(p, RespondJSON(StatusOK))
            /\ UNCHANGED dirVars
       ELSE IF req[p].id = 0 /\ req[p].method = "POST"
       THEN IF TrimSpace(req[p].arg) = ""
            THEN /\ Return(p, Respond(StatusBadRequest, "email is required"))
                 /\ UNCHANGED dirVars
            ELSE IF UserExists(ToLower(TrimSpace(req[p].arg)))
            THEN \* the message goes on with ": " and the address
                 /\ Return(p, Respond(StatusConflict, "user already exists"))
                 /\ UNCHANGED dirVars
            ELSE /\ userSeq < MaxUsers
                 /\ authorized_users' = InsertUser(ToLower(TrimSpace(req[p].arg)))
                 /\ userSeq' = userSeq + 1
                 /\ userAdded' = userAdded @@ (userSeq + 1 :> req[p].arg)
                 /\ userDeleted' = userDeleted
                 /\ pc' = [pc EXCEPT ![p] = "ur_get"]
                 /\ req' = [req EXCEPT ![p].id = userSeq + 1]
                 /\ res' = res
       ELSE IF req[p].id # 0 /\ req[p].method = "DELETE"
       THEN /\ authorized_users' = DeleteUserRows(req[p].id)
            /\ userDeleted' = IF \E r \in authorized_users : r.id = req[p].id
                              THEN userDeleted \cup {req[p].id}
                              ELSE userDeleted
            /\ UNCHANGED <<userSeq, userAdded>>
            /\ IF \E r \in authorized_users : r.id = req[p].id
               THEN Return(p, RespondJSON(StatusOK))
               ELSE Return(p, Respond(StatusNotFound, "user not found"))
       ELSE /\ Return(p, Respond(StatusMethodNotAllowed, "method not allowed"))
            /\ UNCHANGED dirVars
    /\ UNCHANGED <<now, ticks, passkey_credentials, passkeySeq, ceremonyVars, tokenVars, sessionVars,
                   keyVars, attempts>>

\* s.GetByID(id) at the end of UserStore.Add, and the answer of addUser.
UsersRouteGet(p) ==
    /\ pc[p] = "ur_get"
    /\ IF \E r \in authorized_users : r.id = req[p].id
       THEN Return(p, RespondJSON(StatusCreated))
       ELSE Return(p, Respond(StatusInternalServerError, "adding user: user not found"))
    /\ UNCHANGED <<now, ticks, userVars, tokenVars, sessionVars, keyVars, attempts>>

\* --------------------------------------------------------------- the clock
Tick(d) ==
    /\ ticks < MaxTicks
    /\ now' = now + d
    /\ ticks' = ticks + 1
    /\ UNCHANGED <<userVars, tokenVars, sessionVars, keyVars, attempts, pc, req, res>>

\* ----------------------------------------------------------- specifications
Init ==
    /\ now = 0
    /\ ticks = 0
    /\ auth_tokens = {}
    /\ tokenSeq = 0
    /\ issued = <<>>
    /\ redeemed = <<>>
    /\ sessions = {}
    /\ sessionSeq = 0
    /\ sessIssued = <<>>
    /\ destroyed = {}
    /\ api_keys = {}
    /\ keySeq = 0
    /\ keyIssued = <<>>
    /\ revoked = {}
    /\ attempts = [a \in ClientAddrs |-> <<>>]
    /\ authorized_users = {}
    /\ userSeq = 0
    /\ userAdded = <<>>
    /\ userDeleted = {}
    /\ passkey_credentials = {}
    /\ passkeySeq = 0
    /\ loginSessionData = <<>>
    /\ challengeSeq = 0
    /\ regSessions = [e \in Emails |-> <<>>]
    /\ regIssued = <<>>
    /\ pc = [p \in Procs |-> "idle"]
    /\ req = [p \in Procs |-> NoReq]
    /\ res = [p \in Procs |-> NoRes]

\* The token store used by concurrent callers.
TokenNext ==
    \/ \E e \in Emails : TokenCreate(e)
    \/ \E p \in Procs, tok \in PresentedTokens : TokenValidateCall(p, tok)
    \/ \E p \in Procs : TokenValidateUpdate(p)
    \/ \E p \in Procs : TokenValidateSelect(p)
    \/ TokenCleanup
    \/ \E d \in TokenSteps : Tick(d)

TokenSpec == Init /\ [][TokenNext]_vars

\* The session store used by concurrent callers.
SessionNext ==
    \/ \E e \in Emails : SessionCreate(e)
    \/ \E p \in Procs, c \in PresentedCookies : SessionValidateCall(p, c)
    \/ \E p \in Procs : SessionValidateSelect(p)
    \/ \E p \in Procs : SessionValidateDelete(p)
    \/ \E p \in Procs, c \in PresentedCookies : SessionDestroy(p, c)
    \/ SessionCleanup
    \/ \E d \in SessionSteps : Tick(d)

SessionSpec == Init /\ [][SessionNext]_vars

\* The API key store used by concurrent callers.
KeyNext ==
    \/ \E n \in KeyNames, e \in KeyOwners, raw \in GeneratedKeys : KeyCreate(n, e, raw)
    \/ \E p \in Procs \ GateProcs, id \in KeyIDs, e \in Emails : KeyDelete(p, id, e)
    \/ \E p \in Procs, k \in PresentedKeys : KeyValidateCall(p, k)
    \/ \E p \in Procs : KeyValidateSelect(p)
    \/ \E p \in Procs : KeyValidateUpdate(p)
    \/ \E d \in TokenSteps : Tick(d)

KeySpec == Init /\ [][KeyNext]_vars

\* The middleware chain serving requests while sessions and keys come and go.
GateNext ==
    \/ \E e \in GateUsers : SessionCreate(e)
    \/ \E n \in KeyNames, e \in GateOwners, raw \in GateGenerated : KeyCreate(n, e, raw)
    \/ \E p \in Procs \ GateProcs, id \in GateKeyIDs, e \in GateUsers : KeyDelete(p, id, e)
    \/ \E p \in GateProcs, path \in GatePaths, hdr \in GateHeaders,
          c \in GateCookies, a \in RemoteAddrs : HttpRequest(p, path, hdr, c, a)
    \/ \E p \in Procs : SessionValidateSelect(p)
    \/ \E p \in Procs : SessionValidateDelete(p)
    \/ \E p \in Procs : RateCheck(p)
    \/ \E p \in Procs : KeyValidateSelect(p)
    \/ \E p \in Procs : KeyValidateUpdate(p)
    \/ \E p \in Procs : RecordFailure(p)
    \/ \E d \in GateSteps : Tick(d)

GateSpec == Init /\ [][GateNext]_vars

\* Bearer requests from one address, with good and bad keys, while time passes.
LimiterNext ==
    \/ \E n \in KeyNames, e \in GateOwners \ {""}, raw \in GateGenerated : KeyCreate(n, e, raw)
    \/ \E p \in GateProcs, path \in LimiterPaths, hdr \in LimiterHeaders,
          a \in RemoteAddrs : HttpRequest(p, path, hdr, <<>>, a)
    \/ \E p \in Procs : RateCheck(p)
    \/ \E p \in Procs : KeyValidateSelect(p)
    \/ \E p \in Procs : KeyValidateUpdate(p)
    \/ \E p \in Procs : RecordFailure(p)
    \/ \E d \in LimiterSteps : Tick(d)

LimiterSpec == Init /\ [][LimiterNext]_vars

\* Bearer requests with good and bad keys from several connections.
ClientNext ==
    \/ \E n \in KeyNames, e \in GateOwners \ {""}, raw \in GateGenerated : KeyCreate(n, e, raw)
    \/ \E p \in Procs, path \in LimiterPaths, hdr \in LimiterHeaders,
          a \in ClientAddrs : HttpRequest(p, path, hdr, <<>>, a)
    \/ \E p \in Procs : RateCheck(p)
    \/ \E p \in Procs : KeyValidateSelect(p)
    \/ \E p \in Procs : KeyValidateUpdate(p)
    \/ \E p \in Procs : RecordFailure(p)

ClientSpec == Init /\ [][ClientNext]_vars

\* Requests for pages, with and without sessions and keys.
PageNext ==
    \/ \E e \in GateUsers : SessionCreate(e)
    \/ \E n \in KeyNames, e \in GateOwners \ {""}, raw \in GateGenerated : KeyCreate(n, e, raw)
    \/ \E p \in GateProcs, path \in PagePaths, hdr \in GateHeaders,
          c \in GateCookies, a \in RemoteAddrs : HttpRequest(p, path, hdr, c, a)
    \/ \E p \in Procs : SessionValidateSelect(p)
    \/ \E p \in Procs : SessionValidateDelete(p)
    \/ \E d \in SessionSteps : Tick(d)

PageSpec == Init /\ [][PageNext]_vars

\* Logging in by magic link while the directory changes.
LoginNext ==
    \/ \E e \in DirectoryEmails : UserAdd(e)
    \/ \E id \in 1..MaxUsers : UserDelete(id)
    \/ \E e \in DirectoryEmails : PasskeySave(e)
    \/ \E p \in Procs, page \in Pages, e \in SubmittedEmails : LoginSubmit(p, page, e)
    \/ \E p \in Procs : LoginAuthorize(p)
    \/ \E p \in Procs : LoginIssue(p, TRUE)
    \/ \E p \in Procs \ GateProcs, page \in Pages, tok \in PresentedTokens :
          Verify(p, page, tok)
    \/ \E p \in Procs : TokenValidateUpdate(p)
    \/ \E p \in Procs : TokenValidateSelect(p)
    \/ \E p \in Procs : VerifySession(p)
    \/ \E p \in Procs \ GateProcs, c \in GateCookies : SessionValidateCall(p, c)
    \/ \E p \in Procs : SessionValidateSelect(p)

LoginSpec == Init /\ [][LoginNext]_vars

\* Passkeys saved for users and deleted on behalf of users and strangers.
PasskeyCallers == Emails \cup {"Bob@Example.COM", "intruder@example.com"}

PasskeyNext ==
    \/ \E e \in Emails : PasskeySave(e)
    \/ \E p \in Procs, id \in 1..MaxPasskeys, e \in PasskeyCallers : PasskeyDelete(p, id, e)

PasskeySpec == Init /\ [][PasskeyNext]_vars

\* Logging in with a passkey: ceremonies begun and finished by two browsers
\* while users and credentials come and go.
HandleEmails == Emails \cup {"eve@example.com"}

CeremonyNext ==
    \/ \E e \in DirectoryEmails : UserAdd(e)
    \/ \E id \in 1..MaxUsers : UserDelete(id)
    \/ \E e \in Emails : PasskeySave(e)
    \/ BeginLogin
    \/ \E p \in Procs, ch \in 1..challengeSeq, e \in HandleEmails, c \in 0..passkeySeq :
          FinishLogin(p, ch, WebAuthnID(e), c)
    \/ \E p \in Procs : FinishVerify(p)
    \/ \E p \in Procs : FinishSession(p)

CeremonySpec == Init /\ [][CeremonyNext]_vars

\* User administration by holders of sessions.
AddedEmails == DirectoryEmails \cup {"Bob@Example.COM"}

AdminRequests ==
    {<<"GET", 0, "">>, <<"POST", 0, " ">>, <<"DELETE", 0, "">>}
        \cup {<<"POST", 0, e>> : e \in DirectoryEmails}
        \cup {<<"DELETE", id, "">> : id \in 1..MaxUsers}

AdminNext ==
    \/ \E e \in AddedEmails : UserAdd(e)
    \/ \E id \in 1..MaxUsers : UserDelete(id)
    \/ \E e \in Emails : SessionCreate(e)
    \/ \E p \in Procs, c \in GateCookies, r \in AdminRequests :
          UsersRoute(p, c, r[1], r[2], r[3])
    \/ \E p \in Procs : SessionValidateSelect(p)
    \/ \E p \in Procs : SessionValidateDelete(p)
    \/ \E p \in Procs : UsersRouteExec(p)
    \/ \E p \in Procs : UsersRouteGet(p)
    \/ \E d \in SessionSteps : Tick(d)

AdminSpec == Init /\ [][AdminNext]_vars

\* Tokens presented to /auth/verify and /cli/auth/verify by concurrent
\* requests.
VerifyNext ==
    \/ \E e \in Emails : TokenCreate(e)
    \/ \E p \in Procs, page \in Pages, tok \in PresentedTokens : Verify(p, page, tok)
    \/ \E p \in Procs : TokenValidateUpdate(p)
    \/ \E p \in Procs : TokenValidateSelect(p)
    \/ \E p \in Procs : VerifySession(p)
    \/ \E d \in TokenSteps : Tick(d)

VerifySpec == Init /\ [][VerifyNext]_vars

\* Login links whose mail may fail to be sent, redeemed while time passes
\* and the token table is swept.
MailEmails == {"admin@example.com", "eve@example.com"}

MailNext ==
    \/ \E p \in GateProcs, page \in Pages, e \in MailEmails : LoginSubmit(p, page, e)
    \/ \E p \in Procs : LoginAuthorize(p)
    \/ \E p \in Procs, sent \in BOOLEAN : LoginIssue(p, sent)
    \/ \E p \in Procs \ GateProcs, page \in Pages, tok \in PresentedTokens :
          Verify(p, page, tok)
    \/ \E p \in Procs : TokenValidateUpdate(p)
    \/ \E p \in Procs : TokenValidateSelect(p)
    \/ \E p \in Procs : VerifySession(p)
    \/ TokenCleanup
    \/ \E d \in TokenSteps : Tick(d)

MailSpec == Init /\ [][MailNext]_vars

\* Keys requested through POST /api/keys and then presented as bearer keys,
\* while sessions expire and users log out.
CreateKeyNext ==
    \/ \E e \in GateUsers : SessionCreate(e)
    \/ \E p \in GateProcs, c \in GateCookies : CreateKeyRequest(p, c)
    \/ \E p \in Procs : SessionValidateSelect(p)
    \/ \E p \in Procs : SessionValidateDelete(p)
    \/ \E p \in Procs, raw \in GateGenerated : CreateKeyStore(p, raw)
    \/ \E p \in Procs \ GateProcs, c \in GateCookies : SessionDestroy(p, c)
    \/ \E p \in Procs \ GateProcs, k \in GateKeys : KeyValidateCall(p, k)
    \/ \E p \in Procs : KeyValidateSelect(p)
    \/ \E p \in Procs : KeyValidateUpdate(p)
    \/ \E d \in SessionSteps : Tick(d)

CreateKeySpec == Init /\ [][CreateKeyNext]_vars

\* The CLI completion page requested with and without sessions, while
\* sessions expire and users log out.
CLINext ==
    \/ \E e \in Emails : SessionCreate(e)
    \/ \E p \in Procs, c \in PresentedCookies : CLIAuthComplete(p, c)
    \/ \E p \in Procs : SessionValidateSelect(p)
    \/ \E p \in Procs : SessionValidateDelete(p)
    \/ \E p \in Procs, raw \in GeneratedKeys : CLIAuthCreateKey(p, raw)
    \/ \E p \in Procs \ GateProcs, c \in GateCookies : SessionDestroy(p, c)
    \/ \E d \in SessionSteps : Tick(d)

CLISpec == Init /\ [][CLINext]_vars

\* Registering passkeys: ceremonies begun and finished by two browser tabs
\* of users with sessions.
RegistrationNext ==
    \/ \E e \in Emails : SessionCreate(e)
    \/ \E p \in Procs, c \in GateCookies : BeginRegistration(p, c)
    \/ \E p \in Procs, c \in GateCookies, ch \in 0..Len(regIssued) :
          FinishRegistration(p, c, ch)
    \/ \E p \in Procs : SessionValidateSelect(p)
    \/ \E p \in Procs : SessionValidateDelete(p)
    \/ \E p \in Procs : BeginRegistrationStore(p)
    \/ \E p \in Procs : FinishRegistrationTake(p)
    \/ \E p \in Procs : FinishRegistrationSave(p)
    \/ \E d \in SessionSteps : Tick(d)

RegistrationSpec == Init /\ [][RegistrationNext]_vars

\* ------------------------------------------------------------- properties
\* Goroutine p has returned from TokenStore.Validate(req[p].token).
TokenValidateDone(p) == pc[p] = "idle" /\ req[p].op = "TokenValidate"

TokenUnexpired(tok) == \E r \in TokenRows(tok) : r.expires_at > now

\* C1: when two goroutines call Validate concurrently with the same token,
\* which was unused and unexpired when each call began and is still unexpired
\* when both have returned, exactly one call succeeds, with the address the
\* token was created for, and the other fails.
C1_ExactlyOneRedemption ==
    \A p \in Procs, q \in Procs :
        ( /\ p # q
          /\ TokenValidateDone(p) /\ TokenValidateDone(q)
          /\ req[p].token = req[q].token
          /\ req[p].seen = "live" /\ req[q].seen = "live"
          /\ TokenUnexpired(req[p].token) )
        => /\ res[p].ok # res[q].ok
           /\ res[p].ok => res[p].email = issued[req[p].token]
           /\ res[q].ok => res[q].email = issued[req[q].token]

C1_Witness ==
    \E p \in Procs, q \in Procs :
        /\ p # q
        /\ TokenValidateDone(p) /\ TokenValidateDone(q)
        /\ req[p].token = req[q].token
        /\ req[p].seen = "live" /\ req[q].seen = "live"
        /\ TokenUnexpired(req[p].token)
        /\ res[p].ok /\ ~res[q].ok

\* C2: no token is redeemed by more than one Validate call, and a Validate
\* call that begins when the token is already marked used fails.
C2_UsedTokenNeverValidates ==
    /\ \A t \in DOMAIN redeemed : redeemed[t] <= 1
    /\ \A p \in Procs :
          (TokenValidateDone(p) /\ req[p].seen = "used") => ~res[p].ok

C2_Witness ==
    \E p \in Procs :
        /\ TokenValidateDone(p) /\ req[p].seen = "used" /\ ~res[p].ok
        /\ redeemed[req[p].token] = 1
        /\ TokenUnexpired(req[p].token)

\* C3: a Validate call that begins after the token's expiry time has passed
\* fails, whether or not the token was ever used.
C3_ExpiredTokenFails ==
    \A p \in Procs :
        (TokenValidateDone(p) /\ req[p].seen = "expired") => ~res[p].ok

C3_Witness ==
    \E p \in Procs :
        /\ TokenValidateDone(p) /\ req[p].seen = "expired" /\ ~res[p].ok
        /\ \E r \in TokenRows(req[p].token) : r.used = 0

\* C4: a successful Validate returns the address that was given to the
\* Create call which returned the token.
C4_ValidateReturnsIssuedAddress ==
    \A p \in Procs :
        (TokenValidateDone(p) /\ res[p].ok)
        => /\ req[p].token \in DOMAIN issued
           /\ res[p].email = issued[req[p].token]

C4_Witness ==
    \E p \in Procs :
        /\ TokenValidateDone(p) /\ res[p].ok
        /\ res[p].email = issued[req[p].token]
        /\ \E t \in DOMAIN issued : issued[t] # res[p].email

\* The record Create made for this raw key is still in the table.
KeyLive(key) ==
    /\ key \in DOMAIN keyIssued
    /\ \E r \in api_keys : r.id = keyIssued[key].id

\* C5: APIKeyStore.Validate finds a record, and can return an owner, only
\* when the presented string is a raw key Create returned and that key's
\* record is in the table at the lookup; for every other string, one that
\* differs from a real key in one character included, it returns the empty
\* owner.  A success returns the owner the key was created with.
C5_ValidateOnlyExactKey ==
    [][\A p \in Procs :
          (req[p].op = "KeyValidate" /\ pc'[p] # pc[p]) =>
             /\ pc[p] = "kv_select" =>
                   IF KeyLive(req[p].key)
                   THEN pc'[p] = "kv_update"
                   ELSE pc'[p] = "idle" /\ ~res'[p].ok /\ res'[p].email = ""
             /\ pc[p] = "kv_update" =>
                   /\ pc'[p] = "idle"
                   /\ req[p].key \in DOMAIN keyIssued
                   /\ res'[p].email = keyIssued[req[p].key].email
                   /\ res'[p].ok <=> res'[p].email # ""
      ]_vars

C5_Witness ==
    \E p \in Procs :
        /\ pc[p] = "idle" /\ req[p].op = "KeyValidate"
        /\ ~res[p].ok /\ res[p].email = ""
        /\ req[p].key \notin DOMAIN keyIssued
        /\ \E k \in DOMAIN keyIssued :
              /\ KeyLive(k) /\ keyIssued[k].email # ""
              /\ Len(k) = Len(req[p].key)
              /\ Cardinality({i \in 1..Len(k) : k[i] # req[p].key[i]}) = 1

\* The cookie names a stored session that has not expired.
SessionValidNow(cookie) ==
    /\ cookie # <<>>
    /\ \E r \in sessions : r.id = cookie[1] /\ ~(now > r.expires_at)

\* Goroutine p starts serving a request in this step.
Enters(p) ==
    /\ pc[p] = "idle"
    /\ req'[p].op = "Http"
    /\ <<pc'[p], req'[p], res'[p]>> # <<pc[p], req[p], res[p]>>

\* Goroutine p answers or forwards its request in this step.
Completes(p) == req[p].op = "Http" /\ pc[p] # "idle" /\ pc'[p] = "idle"

OnManagementPath(r) ==
    /\ r.op = "Http"
    /\ Len(r.path) >= 2 /\ r.path[1] = "api" /\ r.path[2] \in {"keys", "users"}

OnBearerPath(r) ==
    /\ r.op = "Http"
    /\ Len(r.path) >= 2 /\ r.path[1] = "api" /\ r.path[2] \notin {"keys", "users"}

HasBearer(r) == Len(r.hdr) = 2 /\ r.hdr[1] = "Bearer"

\* C6: a request to /api/keys, /api/keys/*, /api/users or /api/users/* is
\* decided by its session alone: it is forwarded to the handler exactly when
\* the session lookup finds a valid session, and otherwise it is answered
\* 401, whatever bearer key it carries.
C6_ManagementNeedsSession ==
    [][\A p \in Procs :
          /\ (Enters(p) /\ OnManagementPath(req'[p])) => pc'[p] = "sv_select"
          /\ (OnManagementPath(req[p]) /\ pc[p] # "idle" /\ pc'[p] # pc[p]) =>
                /\ pc[p] \in {"sv_select", "sv_delete"}
                /\ pc'[p] \in {"sv_delete", "idle"}
          /\ (Completes(p) /\ OnManagementPath(req[p])) =>
                /\ res'[p].ok <=>
                      (pc[p] = "sv_select" /\ SessionValidNow(req[p].cookie))
                /\ ~res'[p].ok => res'[p].status = StatusUnauthorized
      ]_vars

C6_Witness ==
    \E p \in Procs :
        /\ pc[p] = "idle" /\ OnManagementPath(req[p])
        /\ HasBearer(req[p]) /\ KeyLive(req[p].hdr[2])
        /\ keyIssued[req[p].hdr[2]].email # ""
        /\ ~SessionValidNow(req[p].cookie)
        /\ ~res[p].ok /\ res[p].status = StatusUnauthorized

\* The address has rateLimitMaxFail or more failures inside the window.
RateLimited(addr) ==
    Cardinality({i \in DOMAIN attempts[addr] :
                    attempts[addr][i] > now - rateLimitWindow}) >= rateLimitMaxFail

\* What the middleware has established about the bearer key of p's request
\* at the point it has reached.
BearerAccepted(p) ==
    /\ HasBearer(req[p])
    /\ IF pc[p] = "kv_update" THEN req[p].email # ""
       ELSE IF pc[p] = "rl_record" THEN FALSE
       ELSE KeyLive(req[p].key) /\ keyIssued[req[p].key].email # ""

\* C7 as stated: a request to a bearer-protected path is forwarded if and
\* only if it presents a valid bearer key or has a valid session, and with
\* neither it is answered 401.
C7_ForwardedIffKeyOrSession ==
    [][\A p \in Procs :
          (Completes(p) /\ OnBearerPath(req[p])) =>
             /\ res'[p].ok <=>
                   (BearerAccepted(p) \/ SessionValidNow(req[p].cookie))
             /\ (~BearerAccepted(p) /\ ~SessionValidNow(req[p].cookie))
                   => res'[p].status = StatusUnauthorized
      ]_vars

\* C7, amended: a request to a bearer-protected path that carries a Bearer
\* header is decided by the limiter and the key alone: 429 when its address
\* is rate limited, forwarded with the key's owner when the key's record is
\* found with a non-empty owner, 401 otherwise, its session never consulted.
\* A request without a Bearer header is forwarded exactly when its session
\* is valid, and answered 401 otherwise.
C7_BearerElseSession ==
    [][\A p \in Procs :
          /\ (Enters(p) /\ OnBearerPath(req'[p])) =>
                pc'[p] = IF HasBearer(req'[p]) THEN "rl_check" ELSE "sv_select"
          /\ (OnBearerPath(req[p]) /\ pc'[p] # pc[p] /\ pc[p] = "rl_check") =>
                IF RateLimited(req[p].addr)
                THEN pc'[p] = "idle" /\ res'[p].status = StatusTooManyRequests
                ELSE pc'[p] = "kv_select"
          /\ (OnBearerPath(req[p]) /\ pc'[p] # pc[p] /\ pc[p] = "kv_select") =>
                IF KeyLive(req[p].key)
                THEN pc'[p] = "kv_update"
                     /\ req'[p].email = keyIssued[req[p].key].email
                ELSE pc'[p] = "rl_record"
          /\ (OnBearerPath(req[p]) /\ pc'[p] # pc[p] /\ pc[p] = "kv_update") =>
                IF req[p].email # ""
                THEN pc'[p] = "idle" /\ res'[p].email = req[p].email
                ELSE pc'[p] = "rl_record"
          /\ (OnBearerPath(req[p]) /\ pc'[p] # pc[p] /\ pc[p] = "rl_record") =>
                pc'[p] = "idle" /\ res'[p].status = StatusUnauthorized
          /\ (OnBearerPath(req[p]) /\ pc'[p] # pc[p]
                /\ pc[p] \in {"sv_select", "sv_delete"}) =>
                /\ ~HasBearer(req[p])
                /\ pc'[p] \in {"sv_delete", "idle"}
                /\ pc'[p] = "idle" /\ ~res'[p].ok
                      => res'[p].status = StatusUnauthorized
          /\ (Completes(p) /\ OnBearerPath(req[p])) =>
                res'[p].ok <=>
                   IF HasBearer(req[p])
                   THEN pc[p] = "kv_update" /\ req[p].email # ""
                   ELSE pc[p] = "sv_select" /\ SessionValidNow(req[p].cookie)
      ]_vars

C7_Witness ==
    \E p \in Procs :
        /\ pc[p] = "idle" /\ OnBearerPath(req[p])
        /\ HasBearer(req[p]) /\ ~KeyLive(req[p].key)
        /\ SessionValidNow(req[p].cookie)
        /\ ~res[p].ok /\ res[p].status = StatusUnauthorized

\* Goroutine p has returned from SessionStore.Validate(r).
SessionValidateDone(p) == pc[p] = "idle" /\ req[p].op = "SessionValidate"

\* C8: a Validate call that begins when the cookie names a session whose
\* expires_at has passed fails, and when it has returned the table holds no
\* row for that session.
C8_ExpiredSessionDeleted ==
    \A p \in Procs :
        (SessionValidateDone(p) /\ req[p].seen = "expired")
        => /\ ~res[p].ok
           /\ SessionRows(req[p].cookie[1]) = {}

C8_Witness ==
    \E p \in Procs :
        /\ SessionValidateDone(p) /\ req[p].seen = "expired"
        /\ res[p].err = "session expired"
        /\ SessionRows(req[p].cookie[1]) = {}
        /\ req[p].cookie[1] \in DOMAIN sessIssued

\* C9: Validate succeeds exactly when, at its lookup, the request carries a
\* cookie whose id is that of a stored session that has not expired, and it
\* then returns the address the session was created for; without a cookie
\* or with an id that matches no row it fails.
C9_ValidateIffStoredUnexpired ==
    [][\A p \in Procs :
          (req[p].op = "SessionValidate" /\ pc'[p] # pc[p]) =>
             /\ pc[p] = "sv_select" =>
                   IF SessionValidNow(req[p].cookie)
                   THEN /\ pc'[p] = "idle" /\ res'[p].ok
                        /\ res'[p].email = sessIssued[req[p].cookie[1]]
                   ELSE \/ pc'[p] = "idle" /\ ~res'[p].ok
                        \/ pc'[p] = "sv_delete" /\ req[p].cookie # <<>>
                             /\ SessionRows(req[p].cookie[1]) # {}
             /\ pc[p] = "sv_delete" => (pc'[p] = "idle" /\ ~res'[p].ok)
      ]_vars

C9_Witness ==
    \E p \in Procs, q \in Procs :
        /\ SessionValidateDone(p) /\ res[p].ok
        /\ res[p].email = sessIssued[req[p].cookie[1]]
        /\ SessionValidateDone(q) /\ ~res[q].ok
        /\ req[q].cookie # <<>> /\ req[q].cookie[1] \notin DOMAIN sessIssued

\* C10: once Destroy has returned for a request carrying a session cookie,
\* every Validate call that begins afterwards with that cookie fails; and
\* Destroy for a request without a session cookie returns no error and
\* leaves the sessions table as it was.
C10_DestroyEndsSession ==
    /\ [](\A p \in Procs :
            (SessionValidateDone(p) /\ req[p].seen = "destroyed") => ~res[p].ok)
    /\ [][\A p \in Procs :
            ( /\ pc[p] = "idle"
              /\ req'[p].op = "SessionDestroy" /\ req'[p].cookie = <<>>
              /\ <<req'[p], res'[p]>> # <<req[p], res[p]>> )
            => (res'[p].ok /\ sessions' = sessions)
         ]_vars

C10_Witness ==
    \E p \in Procs, q \in Procs :
        /\ SessionValidateDone(p) /\ req[p].seen = "destroyed" /\ ~res[p].ok
        /\ req[p].cookie[1] \in DOMAIN sessIssued
        /\ pc[q] = "idle" /\ req[q].op = "SessionDestroy"
        /\ req[q].cookie = <<>> /\ res[q].ok

\* Goroutine p has returned from APIKeyStore.Validate(req[p].key).
KeyValidateDone(p) == pc[p] = "idle" /\ req[p].op = "KeyValidate"

\* C11: a Validate call that begins while the key's record has not been
\* deleted, however much time has passed since Create, and ends with the
\* record still in place returns the owner the key was created with; a
\* Validate call that begins after Delete of the key has returned returns
\* the empty owner.
C11_ValidUntilDeleted ==
    \A p \in Procs :
        KeyValidateDone(p) =>
           /\ (req[p].seen \in {"new", "aged"} /\ KeyLive(req[p].key))
                 => /\ res[p].email = keyIssued[req[p].key].email
                    /\ res[p].ok <=> keyIssued[req[p].key].email # ""
           /\ req[p].seen = "revoked" => (~res[p].ok /\ res[p].email = "")

C11_Witness ==
    \E p \in Procs, q \in Procs :
        /\ KeyValidateDone(p) /\ req[p].seen = "aged" /\ KeyLive(req[p].key)
        /\ res[p].ok /\ res[p].email = keyIssued[req[p].key].email
        /\ KeyValidateDone(q) /\ req[q].seen = "revoked" /\ ~res[q].ok

\* Goroutine p calls APIKeyStore.Delete in this step.
DeleteStep(p) ==
    /\ pc[p] = "idle"
    /\ req'[p].op = "KeyDelete"
    /\ <<req'[p], res'[p]>> # <<req[p], res[p]>>

\* C12 as stated: Delete on behalf of an address that is not the key's owner
\* fails with not-found and leaves the key's record in place.
C12_DeleteIsOwnerScoped ==
    [][\A p \in Procs :
          ( /\ DeleteStep(p)
            /\ \E r \in api_keys : r.id = req'[p].id /\ r.email # req'[p].email )
          => (~res'[p].ok /\ api_keys' = api_keys)
      ]_vars

\* C13: no record of api_keys holds a raw key: of the key it belongs to, a
\* record holds the first 8 characters, which are fewer than the key has,
\* and the SHA-256 digest, and neither field equals any raw key Create has
\* returned.
C13_RawKeyNeverStored ==
    \A r \in api_keys :
        /\ \A k \in DOMAIN keyIssued : r.key_prefix # k /\ r.key_hash # k
        /\ \E k \in DOMAIN keyIssued :
              /\ keyIssued[k].id = r.id
              /\ Len(r.key_prefix) = 8 /\ Len(k) > 8
              /\ \A i \in 1..8 : r.key_prefix[i] = k[i]
              /\ r.key_hash = <<"sha256", k>>

C13_Witness ==
    \E r \in api_keys, k \in DOMAIN keyIssued, p \in Procs :
        /\ keyIssued[k].id = r.id
        /\ r.key_prefix # k /\ r.key_hash # k
        /\ KeyValidateDone(p) /\ req[p].key = k /\ res[p].ok

\* Goroutine p, serving a bearer request, leaves the limiter check in this step.
LimiterConsulted(p) ==
    req[p].op = "Http" /\ pc[p] = "rl_check" /\ pc'[p] # "rl_check"

\* The failures recorded for the address less than one window ago.
RecentFailures(addr) ==
    Cardinality({i \in DOMAIN attempts[addr] :
                    now - attempts[addr][i] < rateLimitWindow})

\* C14: with threshold 10 and a window of one minute, the limiter reports
\* not limited to a request that has at most 9 failures of its address inside
\* the window before it (the 1st to 10th failure) and limited to one that has
\* 10 (the 11th); when every recorded failure of the address is older than
\* the window it reports not limited.  Every failure is recorded once, with
\* the time of its recording.
C14_LimitedAtEleventhFailure ==
    [][\A p \in Procs :
          /\ LimiterConsulted(p) =>
                /\ RecentFailures(req[p].addr) < 10 => pc'[p] = "kv_select"
                /\ RecentFailures(req[p].addr) >= 10 =>
                      (pc'[p] = "idle" /\ res'[p].status = StatusTooManyRequests)
                /\ (\A i \in DOMAIN attempts[req[p].addr] :
                       now - attempts[req[p].addr][i] > rateLimitWindow)
                      => pc'[p] = "kv_select"
          /\ (req[p].op = "Http" /\ pc[p] = "rl_record" /\ pc'[p] # "rl_record") =>
                attempts'[req[p].addr] = Append(attempts[req[p].addr], now)
      ]_vars

C14_Witness ==
    \E p \in Procs :
        /\ pc[p] = "idle" /\ req[p].op = "Http"
        /\ res[p].status = StatusTooManyRequests
        /\ RecentFailures(req[p].addr) = 10
        /\ attempts[req[p].addr][1] < now

\* C15: a bearer request from an address that is rate limited when the
\* limiter is consulted is answered 429 in that step: the key is not looked
\* up, the handler is not invoked and no record of api_keys changes, also
\* when the key is valid.
C15_LimitedBeforeKeyCheck ==
    [][\A p \in Procs :
          (LimiterConsulted(p) /\ RecentFailures(req[p].addr) >= rateLimitMaxFail)
          => /\ pc'[p] = "idle"
             /\ ~res'[p].ok /\ res'[p].status = StatusTooManyRequests
             /\ api_keys' = api_keys
      ]_vars

C15_Witness ==
    \E p \in Procs :
        /\ pc[p] = "idle" /\ req[p].op = "Http"
        /\ res[p].status = StatusTooManyRequests /\ ~res[p].ok
        /\ KeyLive(req[p].key) /\ keyIssued[req[p].key].email # ""
        /\ \A r \in api_keys : r.last_used_at = <<>>

\* C18: a Validate call that begins when the token does not exist, when it
\* is already used, or when it has expired returns one and the same error,
\* whichever of the three is the case.
C18_FailuresIndistinguishable ==
    \A p \in Procs :
        (TokenValidateDone(p) /\ req[p].seen \in {"absent", "used", "expired"})
        => res[p] = Fail("invalid, expired, or already used token")

C18_Witness ==
    \E p \in Procs, q \in Procs :
        /\ TokenValidateDone(p) /\ TokenValidateDone(q)
        /\ req[p].seen = "used" /\ req[q].seen \in {"absent", "expired"}
        /\ res[p] = res[q] /\ ~res[p].ok

\* A login submission has been answered.
LoginSubmitDone(p) == pc[p] = "idle" /\ req[p].op = "LoginSubmit"

\* C16: a login submission whose address is not empty is answered with the
\* page of the handler carrying the one fixed message, no error, and the
\* passkey flag read at the start of the request; nothing in the answer
\* depends on the address or on IsAuthorized.
C16_SameLoginResponse ==
    \A p \in Procs :
        (LoginSubmitDone(p) /\ req[p].email # "")
            => res[p] = Render(req[p].page, successMsg, "", req[p].hp)

\* Two answered submissions to the same page, one for an address that got a
\* token and one for an address outside the directory, with equal answers.
C16_Witness ==
    /\ LoginSubmitDone("g1") /\ LoginSubmitDone("g2")
    /\ req["g1"].page = req["g2"].page
    /\ req["g1"].email = "bob@example.com"
    /\ \E t \in auth_tokens : t.email = "bob@example.com"
    /\ req["g2"].email = "eve@example.com"
    /\ ~IsAuthorized("eve@example.com")
    /\ req["g1"].hp = req["g2"].hp
    /\ res["g1"] = res["g2"]
    /\ res["g1"].body.Message = successMsg

\* C17: no step of a login submission before its authorization test touches
\* the token table, and when the test finds the address neither the admin's
\* nor in authorized_users the request ends there with the token table as
\* it was.
C17_NoTokenForUnauthorized ==
    [][\A p \in Procs :
          /\ (pc[p] = "idle" /\ req'[p].op = "LoginSubmit" /\ pc'[p] \in {"idle", "ls_check"}
                /\ <<req[p], res[p], pc[p]>> # <<req'[p], res'[p], pc'[p]>>)
                => (auth_tokens' = auth_tokens /\ tokenSeq' = tokenSeq)
          /\ (pc[p] = "ls_check" /\ pc'[p] # "ls_check"
                /\ req[p].email # adminEmail
                /\ \A r \in authorized_users : ToLower(r.email) # req[p].email)
                => /\ pc'[p] = "idle"
                   /\ auth_tokens' = auth_tokens
                   /\ tokenSeq' = tokenSeq]_vars

\* An answered submission for an address outside the directory, and no
\* token for it.
C17_Witness ==
    \E p \in Procs :
        /\ LoginSubmitDone(p)
        /\ req[p].arg = "eve@example.com"
        /\ res[p].body.Message = successMsg
        /\ \A t \in auth_tokens : t.email # "eve@example.com"
        /\ \E t \in auth_tokens : t.email = "bob@example.com"

\* C19: a token or a session is accepted only for an address that
\* IsAuthorized at the moment of the validation.
C19_ValidatesOnlyAuthorized ==
    [][\A p \in Procs :
          /\ (pc[p] \in {"tv_update", "tv_select"} /\ pc'[p] = "vf_session")
                => IsAuthorized(req'[p].email)
          /\ (pc[p] = "sv_select" /\ pc'[p] = "idle" /\ res'[p].ok)
                => IsAuthorized(res'[p].email)]_vars

\* handleUsersRoute has established a valid session and decides.
UsersRouteDecides(p) == pc[p] = "ur_admin" /\ pc'[p] # "ur_admin"

\* C20: behind a valid session whose address is not the admin's every
\* request to /api/users and /api/users/{id} is answered 403 and
\* authorized_users stays as it was; behind the admin's session the list is
\* answered 200, the deletion of an existing id removes the row and is
\* answered 200, and the addition of a new address inserts the row and is
\* answered 201 when the row is still there to be read back.
C20_UserAdminIsAdminOnly ==
    [][\A p \in Procs :
          /\ (UsersRouteDecides(p) /\ req[p].email # adminEmail)
                => /\ pc'[p] = "idle"
                   /\ res'[p] = Respond(StatusForbidden, "admin access required")
                   /\ authorized_users' = authorized_users
          /\ (UsersRouteDecides(p) /\ req[p].email = adminEmail)
                => /\ res'[p].status # StatusForbidden
                   /\ (req[p].method = "GET" /\ req[p].id = 0)
                         => (res'[p].ok /\ res'[p].status = StatusOK)
                   /\ (req[p].method = "DELETE"
                         /\ \E r \in authorized_users : r.id = req[p].id)
                         => /\ res'[p].ok /\ res'[p].status = StatusOK
                            /\ \A r \in authorized_users' : r.id # req[p].id
                   /\ (req[p].method = "POST" /\ req[p].id = 0
                         /\ req[p].arg \in DirectoryEmails
                         /\ \A r \in authorized_users : r.email # req[p].arg)
                         => /\ pc'[p] = "ur_get"
                            /\ \E r \in authorized_users' : r.email = req[p].arg
          /\ (pc[p] = "ur_get" /\ pc'[p] = "idle"
                /\ \E r \in authorized_users : r.id = req[p].id)
                => (res'[p].ok /\ res'[p].status = StatusCreated)]_vars

\* A holder of a valid non-admin session asked to delete an existing user,
\* was answered 403, and the user is still there.
C20_Witness ==
    \E p \in Procs :
        /\ pc[p] = "idle" /\ req[p].op = "UsersRoute"
        /\ req[p].method = "DELETE"
        /\ req[p].email = "bob@example.com"
        /\ res[p].status = StatusForbidden
        /\ \E r \in authorized_users : r.id = req[p].id

\* The gatekeeper has forwarded p's request to the handler.
Forwarded(p) == pc[p] = "idle" /\ req[p].op = "Http" /\ res[p].ok

\* The address the credential of p's request resolves to: the owner of the
\* bearer key, or the address of the session.
ResolvedAddress(p) ==
    IF OnBearerPath(req[p]) /\ HasBearer(req[p])
    THEN IF req[p].key \in DOMAIN keyIssued THEN keyIssued[req[p].key].email ELSE ""
    ELSE IF req[p].cookie # <<>> /\ req[p].cookie[1] \in DOMAIN sessIssued
         THEN sessIssued[req[p].cookie[1]]
         ELSE ""

ListedPublic(path) ==
    \/ path \in {<<"login">>, <<"auth", "login">>, <<"auth", "verify">>,
                 <<"auth", "logout">>, <<"health">>,
                 <<"passkey", "login", "begin">>, <<"passkey", "login", "finish">>,
                 <<"cli", "auth">>, <<"cli", "auth", "verify">>,
                 <<"cli", "auth", "complete">>}
    \/ (Len(path) >= 2 /\ path[1] = "static")

\* A request for a path that is neither public nor under /api/.
OnProtectedPage(r) ==
    /\ r.op = "Http"
    /\ ~ListedPublic(r.path)
    /\ ~(Len(r.path) >= 2 /\ r.path[1] = "api")

\* C22: a request for a path that is neither public nor under /api/ goes to
\* the session lookup; it is forwarded exactly when the lookup finds a valid
\* session, and otherwise it is answered 303 with Location /login.
C22_PagesNeedSession ==
    [][\A p \in Procs :
          /\ (Enters(p) /\ OnProtectedPage(req'[p])) => pc'[p] = "sv_select"
          /\ (OnProtectedPage(req[p]) /\ pc[p] # "idle" /\ pc'[p] # pc[p]) =>
                /\ pc[p] \in {"sv_select", "sv_delete"}
                /\ pc'[p] \in {"sv_delete", "idle"}
          /\ (Completes(p) /\ OnProtectedPage(req[p])) =>
                /\ res'[p].ok <=>
                      (pc[p] = "sv_select" /\ SessionValidNow(req[p].cookie))
                /\ ~res'[p].ok => res'[p] = Respond(StatusSeeOther, "/login")
      ]_vars

\* A request for a page with the cookie of an expired session and a valid
\* bearer key was redirected to /login.
C22_Witness ==
    \E p \in Procs :
        /\ pc[p] = "idle" /\ OnProtectedPage(req[p])
        /\ req[p].cookie # <<>> /\ ~SessionValidNow(req[p].cookie)
        /\ HasBearer(req[p]) /\ KeyLive(req[p].hdr[2])
        /\ res[p] = Respond(StatusSeeOther, "/login")

\* C23: a request for a public path is forwarded in the step in which it
\* enters, whatever cookie and Authorization header it carries, and that
\* step reads and writes no session, no key and no limiter entry.
C23_PublicPathsBypass ==
    [][\A p \in Procs :
          (Enters(p) /\ ListedPublic(req'[p].path)) =>
             /\ pc'[p] = "idle"
             /\ res'[p] = Forward("")
             /\ UNCHANGED <<sessions, api_keys, attempts>>
      ]_vars

\* A request for /cli/auth with no session and a bearer string that is no
\* key was forwarded.
C23_Witness ==
    \E p \in Procs :
        /\ Forwarded(p)
        /\ req[p].path = <<"cli", "auth">>
        /\ HasBearer(req[p]) /\ ~KeyLive(req[p].hdr[2])
        /\ ~SessionValidNow(req[p].cookie)

\* Addresses IsAuthorized is asked about.
ProbedEmails == {"admin@example.com", "Admin@Example.COM", "bob@example.com",
                 "Bob@Example.COM", "eve@example.com", ""}

\* The addresses given to the Adds that succeeded and whose user has not
\* been deleted since.
LiveUsers == {userAdded[id] : id \in DOMAIN userAdded \ userDeleted}

\* C24: IsAuthorized(address) holds exactly when the address is, letter
\* case aside, the admin's or that of a user added and not since deleted.
C24_AuthorizedIffAdminOrLiveUser ==
    \A a \in ProbedEmails :
        IsAuthorized(a) <=>
            \/ ToLower(a) = ToLower(adminEmail)
            \/ \E u \in LiveUsers : ToLower(u) = ToLower(a)

\* A user added in one letter case is authorized in the other, the admin
\* is authorized in any letter case, and a stranger is not.
C24_Witness ==
    /\ LiveUsers = {"Bob@Example.COM"}
    /\ IsAuthorized("bob@example.com")
    /\ IsAuthorized("Admin@Example.COM")
    /\ ~IsAuthorized("eve@example.com")

\* Goroutine p calls PasskeyStore.Delete in this step.
PasskeyDeleteStep(p) ==
    /\ pc[p] = "idle"
    /\ req'[p].op = "PasskeyDelete"
    /\ <<req'[p], res'[p]>> # <<req[p], res[p]>>

\* C25: PasskeyStore.Delete(id, address) removes the credential with that
\* id when the address is its owner's and succeeds; with any other address
\* it fails with "credential not found", the table is unchanged and the
\* credential is still listed for its owner.  No call removes any other
\* credential.
C25_PasskeyDeleteIsOwnerScoped ==
    [][\A p \in Procs : PasskeyDeleteStep(p) =>
          /\ \A c \in passkey_credentials :
                IF c.id = req'[p].id /\ c.email = req'[p].email
                THEN c \notin passkey_credentials' /\ res'[p] = Ok("")
                ELSE c \in passkey_credentials' /\ c \in ListByEmail(c.email)'
          /\ (\A c \in passkey_credentials :
                 ~(c.id = req'[p].id /\ c.email = req'[p].email))
                => /\ res'[p] = Fail("credential not found")
                   /\ passkey_credentials' = passkey_credentials
      ]_vars

\* A stranger's Delete of the admin's credential failed and the credential
\* is still listed for the admin.
C25_Witness ==
    \E p \in Procs :
        /\ pc[p] = "idle" /\ req[p].op = "PasskeyDelete"
        /\ req[p].email = "intruder@example.com"
        /\ res[p] = Fail("credential not found")
        /\ \E c \in ListByEmail("admin@example.com") : c.id = req[p].id

\* C26: the list of an address gets a new entry only in the step in which a
\* request from that address carrying a Bearer header is answered 401 after
\* APIKeyStore.Validate returned no owner; the steps of a session lookup and
\* the step that forwards a request leave every list as it was.
C26_OnlyFailedKeysCount ==
    [][/\ \A a \in RemoteAddrs :
             Len(attempts'[a]) > Len(attempts[a]) =>
                \E p \in Procs :
                   /\ pc[p] = "rl_record" /\ pc'[p] = "idle"
                   /\ req[p].addr = a /\ HasBearer(req[p])
                   /\ res'[p] = Respond(StatusUnauthorized, "Invalid API key")
                   /\ attempts'[a] = Append(attempts[a], now)
       /\ \A p \in Procs :
             /\ (req[p].op = "Http" /\ pc[p] \in {"sv_select", "sv_delete"}
                   /\ pc'[p] # pc[p]) => attempts' = attempts
             /\ (Completes(p) /\ res'[p].ok) => attempts' = attempts
             /\ (req[p].op = "Http" /\ pc[p] = "kv_select" /\ pc'[p] = "rl_record")
                   => ~KeyLive(req[p].key)
             /\ (req[p].op = "Http" /\ pc[p] = "kv_update" /\ pc'[p] = "rl_record")
                   => req[p].email = ""
      ]_vars

\* After one failure was recorded for its address, a request with a valid
\* key was forwarded and the list still has the one entry.
C26_Witness ==
    \E p \in Procs :
        /\ Forwarded(p) /\ OnBearerPath(req[p]) /\ HasBearer(req[p])
        /\ KeyLive(req[p].key)
        /\ Len(attempts[req[p].addr]) = 1

\* C27 as stated: the failures of one client IP address are in one window,
\* whatever the port of the connection each request came on.
C27_WindowKeyedByIP ==
    \A a, b \in ClientAddrs : a[1] = b[1] => attempts[a] = attempts[b]

\* C28: every recording of a failure, whatever other requests from the same
\* address are under way, lengthens the list of its address by exactly its
\* own timestamp and leaves the other lists alone; and no step takes an
\* entry that is inside the window out of a list.  So n recordings inside
\* one window leave n timestamps.
C28_NoLostRecording ==
    [][/\ \A p \in Procs :
             (pc[p] = "rl_record" /\ pc'[p] = "idle") =>
                /\ attempts'[req[p].addr] = Append(attempts[req[p].addr], now)
                /\ \A a \in ClientAddrs \ {req[p].addr} : attempts'[a] = attempts[a]
       /\ \A a \in ClientAddrs :
             LET kept(l) == SelectSeq(l, LAMBDA t : t > now - rateLimitWindow) IN
             \/ kept(attempts'[a]) = kept(attempts[a])
             \/ \E p \in Procs : pc[p] = "rl_record" /\ pc'[p] = "idle" /\ req[p].addr = a
      ]_vars

\* Eleven timestamps for one address: two requests passed the limiter
\* together at nine and both their failures were kept.
C28_Witness ==
    \E a \in ClientAddrs :
        /\ Len(attempts[a]) = rateLimitMaxFail + 1
        /\ \A p \in Procs :
              /\ pc[p] = "idle" /\ req[p].op = "Http" /\ req[p].addr = a
              /\ res[p] = Respond(StatusUnauthorized, "Invalid API key")

\* The addresses UserStore.AllEmails returns, from the table.
DirectoryNow == {adminEmail} \cup {r.email : r \in authorized_users}

\* C29: FinishLogin goes on to create a session only for an address of the
\* directory whose handle, the hash of the address, is the user handle of
\* the assertion and which owns the credential of the assertion; the session
\* it then creates is bound to that address; when no address of the
\* directory has that handle the login is answered 401; and no other step
\* creates a session.
C29_PasskeySessionForHandleOwner ==
    [][/\ \A p \in Procs :
             /\ (pc[p] = "fl_verify" /\ pc'[p] = "fl_session") =>
                   /\ req'[p].email \in DirectoryNow
                   /\ req[p].handle = <<"sha256", req'[p].email>>
                   /\ \A e \in DirectoryNow \ {req'[p].email} :
                         req[p].handle # <<"sha256", e>>
                   /\ \E c \in passkey_credentials :
                         c.id = req[p].id /\ c.email = req'[p].email
             /\ (pc[p] = "fl_verify" /\ pc'[p] # "fl_verify"
                   /\ \A e \in DirectoryNow : req[p].handle # <<"sha256", e>>) =>
                   /\ pc'[p] = "idle"
                   /\ res'[p] = Respond(StatusUnauthorized, "Login failed")
                   /\ sessions' = sessions
             /\ (pc[p] = "fl_session" /\ pc'[p] = "idle") =>
                   /\ res'[p].ok
                   /\ \E r \in sessions' \ sessions :
                         /\ r.email = req[p].email
                         /\ sessions' = sessions \cup {r}
       /\ sessions' # sessions => \E p \in Procs : pc[p] = "fl_session" /\ pc'[p] = "idle"
      ]_vars

\* A passkey login with bob's handle and bob's credential ended with a
\* session for bob.
C29_Witness ==
    \E p \in Procs :
        /\ pc[p] = "idle" /\ req[p].op = "FinishLogin" /\ res[p].ok
        /\ req[p].handle = <<"sha256", "bob@example.com">>
        /\ \E r \in sessions : r.email = "bob@example.com"

\* FinishLogin of goroutine p was accepted by the library.
FinishSucceeded(p) ==
    /\ req[p].op = "FinishLogin"
    /\ \/ pc[p] = "fl_session"
       \/ pc[p] = "idle" /\ res[p].ok

\* C30: there is one slot for all login ceremonies.  It holds nothing or the
\* challenge of the latest BeginLogin, every BeginLogin puts its challenge
\* there whatever was in it, and every FinishLogin empties it; a FinishLogin
\* succeeds only with the challenge it took from the slot; and two
\* FinishLogin calls never succeed with the same challenge.  So after
\* BeginLogin by A and BeginLogin by B at most one FinishLogin succeeds.
C30_OneLoginSlot ==
    [][/\ loginSessionData \in {<<>>, <<challengeSeq>>}
       /\ challengeSeq' # challengeSeq =>
             (challengeSeq' = challengeSeq + 1 /\ loginSessionData' = <<challengeSeq'>>)
       /\ \A p \in Procs :
             /\ (pc[p] = "idle" /\ req'[p].op = "FinishLogin"
                   /\ <<pc'[p], req'[p], res'[p]>> # <<pc[p], req[p], res[p]>>) =>
                   /\ loginSessionData' = <<>>
                   /\ req'[p].taken = IF loginSessionData = <<>> THEN 0
                                      ELSE loginSessionData[1]
                   /\ loginSessionData = <<>> =>
                         res'[p] = Respond(StatusBadRequest, "No login in progress")
             /\ FinishSucceeded(p)' =>
                   (req'[p].taken # 0 /\ req'[p].challenge = req'[p].taken)
       /\ \A p, q \in Procs :
             (p # q /\ FinishSucceeded(p)' /\ FinishSucceeded(q)')
                => req'[p].taken # req'[q].taken
      ]_vars

\* Two ceremonies were begun; the FinishLogin that answers the first
\* challenge took the second one from the slot and failed, and the
\* FinishLogin that answers the second found the slot empty: neither
\* succeeded, although both carried the credential of their user.
C30_Witness ==
    /\ challengeSeq = 2
    /\ pc["g1"] = "idle" /\ req["g1"].op = "FinishLogin"
    /\ req["g1"].challenge = 1 /\ req["g1"].taken = 2
    /\ res["g1"] = Respond(StatusUnauthorized, "Login failed")
    /\ \E c \in ListByEmail("admin@example.com") :
          c.id = req["g1"].id /\ req["g1"].handle = <<"sha256", "admin@example.com">>
    /\ pc["g2"] = "idle" /\ req["g2"].op = "FinishLogin"
    /\ req["g2"].challenge = 2 /\ req["g2"].taken = 0
    /\ res["g2"] = Respond(StatusBadRequest, "No login in progress")

\* Goroutine p runs or has run handleFinishRegistration and found a ceremony
\* state for its address under the lock.
RegistrationTaken(p) == req[p].op = "FinishRegistration" /\ req[p].taken # 0

\* C31: passkey registration keeps at most one ceremony state per address.
\* The state kept for an address is that of the latest BeginRegistration
\* for it (a second one replaces the first); FinishRegistration removes the
\* state, so no state is found by two FinishRegistrations; and a
\* FinishRegistration that finds no state (none was begun for the address
\* since its previous FinishRegistration) answers 400 and stores no
\* credential: a credential is stored only by a FinishRegistration that took
\* a state made for its own address.
C31_OneRegistrationState ==
    /\ [](\A e \in Emails :
            regSessions[e] # <<>> =>
                /\ regSessions[e][1] \in 1..Len(regIssued)
                /\ regIssued[regSessions[e][1]] = e
                /\ \A i \in 1..Len(regIssued) :
                      i > regSessions[e][1] => regIssued[i] # e)
    /\ [](\A p, q \in Procs :
            (p # q /\ RegistrationTaken(p) /\ RegistrationTaken(q))
                => req[p].taken # req[q].taken)
    /\ [][\A p \in Procs :
            (pc[p] = "fr_take" /\ pc'[p] # "fr_take") =>
                /\ regSessions'[req[p].email] = <<>>
                /\ \A e \in Emails \ {req[p].email} : regSessions'[e] = regSessions[e]
                /\ regSessions[req[p].email] = <<>> =>
                      /\ pc'[p] = "idle"
                      /\ res'[p].status = StatusBadRequest
                      /\ passkey_credentials' = passkey_credentials]_vars
    /\ [][passkey_credentials' # passkey_credentials =>
            \E p \in Procs :
                /\ pc[p] = "fr_finish"
                /\ RegistrationTaken(p)
                /\ req[p].taken = req[p].challenge
                /\ regIssued[req[p].taken] = req[p].email
                /\ \A c \in passkey_credentials' \ passkey_credentials :
                      c.email = req[p].email]_vars

\* Two registrations were begun for one address; the FinishRegistration that
\* answered the second stored a credential and the next one found no state.
C31_Witness ==
    \E p, q \in Procs :
        /\ p # q
        /\ Len(regIssued) = 2
        /\ regIssued[1] = regIssued[2]
        /\ req[p].op = "FinishRegistration" /\ pc[p] = "idle"
        /\ req[p].taken = 2 /\ res[p].status = StatusOK
        /\ \E c \in passkey_credentials : c.email = req[p].email
        /\ req[q].op = "FinishRegistration" /\ pc[q] = "idle"
        /\ req[q].email = req[p].email
        /\ res[q].err = "No registration in progress"

\* Goroutine p has answered a request for /cli/auth/complete.
CLIAuthCompleteDone(p) == pc[p] = "idle" /\ req[p].op = "CLIAuthComplete"

\* C32: the CLI completion page mints an API key only for a request with a
\* valid session, owned by that session's address.  A key appears only in a
\* step of a completion request whose sessions.Validate returned the address
\* of the session its cookie names, and the key's owner is that address; an
\* answered request either shows its new key (200) or, having minted none, is
\* redirected to /cli/auth, and a request whose cookie named no valid session
\* when it arrived is always redirected.
C32_CLIKeyOnlyForSession ==
    /\ [][api_keys' # api_keys /\ keySeq' # keySeq =>
            \E p \in Procs :
                /\ req[p].op = "CLIAuthComplete" /\ pc[p] = "ca_create"
                /\ req[p].seen = "valid"
                /\ req[p].cookie # <<>>
                /\ req[p].email = sessIssued[req[p].cookie[1]]
                /\ \A r \in api_keys' \ api_keys :
                      r.email = req[p].email /\ r.email # ""]_vars
    /\ [](\A p \in Procs :
            CLIAuthCompleteDone(p) =>
                /\ \/ /\ res[p].status = StatusSeeOther /\ res[p].err = "/cli/auth"
                      /\ req[p].key = <<>>
                   \/ /\ res[p].status = StatusOK
                      /\ req[p].key \in DOMAIN keyIssued
                      /\ keyIssued[req[p].key].email = sessIssued[req[p].cookie[1]]
                /\ req[p].seen # "valid" => res[p].status = StatusSeeOther)
    /\ [](\A p \in Procs :
            (req[p].op = "CLIAuthComplete" /\ req[p].seen # "valid") =>
                pc[p] # "ca_create")

\* One request with a valid session was shown a new key owned by the
\* session's address; one with the cookie of an expired session was
\* redirected.
C32_Witness ==
    \E p, q \in Procs :
        /\ CLIAuthCompleteDone(p) /\ res[p].status = StatusOK
        /\ \E r \in api_keys : r.key_hash = hashAPIKey(req[p].key)
                                /\ r.email = sessIssued[req[p].cookie[1]]
        /\ CLIAuthCompleteDone(q) /\ req[q].seen = "expired"
        /\ res[q].status = StatusSeeOther /\ res[q].err = "/cli/auth"

\* C33: last_used_at is null from Create until the key's first successful
\* Validate and is set by every successful Validate; a failing Validate
\* changes no record.  A record is created with a null last_used_at; a
\* non-null value appears in a record only in the last step of a Validate of
\* that record's key which returns its owner, and is the time of that step;
\* when a Validate returns an owner, the key's record (if it still exists)
\* has that time as last_used_at; and the steps of a Validate that returns
\* no owner leave api_keys as it was.
C33_LastUsedSetByValidate ==
    /\ [][\A r \in api_keys' \ api_keys :
            IF r.id \notin {x.id : x \in api_keys}
            THEN r.last_used_at = <<>>
            ELSE \E p \in Procs :
                    /\ pc[p] = "kv_update" /\ pc'[p] = "idle"
                    /\ req[p].op = "KeyValidate"
                    /\ res'[p].ok /\ res'[p].email = r.email
                    /\ KeyMatches(r, req[p].key)
                    /\ r.last_used_at = <<now>>]_vars
    /\ [][\A p \in Procs :
            (req[p].op = "KeyValidate" /\ pc[p] # "idle" /\ pc'[p] = "idle") =>
                IF res'[p].ok
                THEN \A r \in api_keys' :
                        KeyMatches(r, req[p].key) => r.last_used_at = <<now>>
                ELSE api_keys' = api_keys]_vars
    /\ [][\A p \in Procs :
            (req[p].op = "KeyValidate" /\ pc[p] = "kv_select" /\ pc'[p] # "kv_select")
                => api_keys' = api_keys]_vars

\* C33 (amended): success is a hit.  A record is created with a null
\* last_used_at; a non-null value appears in a record only in the UPDATE of a
\* Validate that found that record by the hash of the presented key, and is
\* the time of that step; when such a Validate returns, the key's record (if
\* it still exists) has that time as last_used_at, whether the owner it
\* returns is empty or not; and a Validate that finds no record changes
\* nothing.
C33_LastUsedSetOnHit ==
    /\ [][\A r \in api_keys' \ api_keys :
            IF r.id \notin {x.id : x \in api_keys}
            THEN r.last_used_at = <<>>
            ELSE \E p \in Procs :
                    /\ pc[p] = "kv_update" /\ pc'[p] = "idle"
                    /\ req[p].op = "KeyValidate"
                    /\ res'[p].email = r.email
                    /\ KeyMatches(r, req[p].key)
                    /\ r.last_used_at = <<now>>]_vars
    /\ [][\A p \in Procs :
            (req[p].op = "KeyValidate" /\ pc[p] = "kv_update" /\ pc'[p] = "idle") =>
                \A r \in api_keys' :
                    KeyMatches(r, req[p].key) => r.last_used_at = <<now>>]_vars
    /\ [][\A p \in Procs :
            (req[p].op = "KeyValidate" /\ pc[p] = "kv_select" /\ pc'[p] # "kv_select")
                => /\ api_keys' = api_keys
                   /\ pc'[p] = "idle" => ~res'[p].ok /\ res'[p].email = ""]_vars

\* A key validated twice, the second time at a later moment, carries the
\* time of its last validation; another key, never validated, has a null
\* last_used_at after a Validate of a wrong string failed.
C33_Witness ==
    \E p, q \in Procs, r, u \in api_keys :
        /\ KeyValidateDone(p) /\ res[p].ok /\ req[p].seen = "aged"
        /\ KeyMatches(r, req[p].key) /\ r.last_used_at = <<now>>
        /\ KeyValidateDone(q) /\ ~res[q].ok /\ req[q].seen = "absent"
        /\ u.id # r.id /\ u.last_used_at = <<>>

\* C34: TokenStore.Cleanup deletes every token whose expiry has passed,
\* used or not, and is idempotent.  Whatever the table holds, what Cleanup
\* leaves contains no row past its expiry and every row that is not past
\* it, and a second Cleanup at the same time leaves that unchanged; and
\* rows leave the table only by Cleanup.
C34_CleanupDeletesExpired ==
    /\ [](LET kept == CleanupTokens(auth_tokens) IN
            /\ kept \subseteq auth_tokens
            /\ \A r \in auth_tokens : r \in kept <=> ~(r.expires_at < now)
            /\ CleanupTokens(kept) = kept)
    /\ [][~({r.token : r \in auth_tokens} \subseteq {r.token : r \in auth_tokens'}) =>
            /\ auth_tokens' = CleanupTokens(auth_tokens)
            /\ now' = now]_vars

\* Two tokens were issued and one of them redeemed; both are past their
\* expiry and Cleanup has removed both.
C34_Witness ==
    /\ \E t, u \in DOMAIN issued : redeemed[t] = 1 /\ redeemed[u] = 0
    /\ auth_tokens = {}
    /\ \A p \in Procs : pc[p] = "idle"

\* Token t was issued by a login submission whose mail could not be sent.
MailFailed(t) ==
    \E p \in Procs : /\ LoginSubmitDone(p)
                      /\ req[p].token = t /\ t # 0
                      /\ ~req[p].sent

\* C35: a failure to send the magic link leaves the issued token valid.  The
\* token is stored unused with the full lifetime whether or not the mail was
\* sent; the row of a token whose mail failed stays in the table until it is
\* past its expiry and is marked used only by a redemption; and a
\* TokenStore.Validate that finds such a token unused and before its expiry
\* redeems it and returns the address it was issued for.
C35_UnsentTokenStaysValid ==
    /\ [][\A p \in Procs :
            (pc[p] = "ls_create" /\ pc'[p] = "idle") =>
                \E r \in auth_tokens' \ auth_tokens :
                    /\ r.token = req'[p].token
                    /\ r.email = req[p].email
                    /\ r.used = 0
                    /\ r.expires_at = now + tokenExpiry]_vars
    /\ [](\A t \in DOMAIN issued :
            MailFailed(t) =>
                \A r \in TokenRows(t) :
                    /\ r.email = issued[t]
                    /\ r.used = 1 =>
                          \/ redeemed[t] >= 1
                          \/ \E q \in Procs : pc[q] = "tv_select" /\ req[q].token = t)
    /\ [][\A t \in DOMAIN issued :
            (MailFailed(t) /\ TokenRows(t) # {} /\ {r \in auth_tokens' : r.token = t} = {})
                => \A r \in TokenRows(t) : r.expires_at < now]_vars
    /\ [][\A q \in Procs :
            (MailFailed(req[q].token) /\ pc'[q] # pc[q]) =>
                /\ (pc[q] = "tv_update" /\ TokenStatus(req[q].token) = "live") =>
                      /\ pc'[q] = "tv_select"
                      /\ \A r \in auth_tokens' : r.token = req[q].token => r.used = 1
                /\ (pc[q] = "tv_update" /\ TokenStatus(req[q].token) # "live") =>
                      pc'[q] = "idle" /\ res'[q].status = StatusOK
                /\ (pc[q] = "tv_select" /\ TokenRows(req[q].token) # {}) =>
                      /\ pc'[q] = "vf_session"
                      /\ req'[q].email = issued[req[q].token]]_vars

\* The mail of a login link failed, and the link was redeemed all the same:
\* the request that presented its token was given a session; a second
\* request with the same token was not.
C35_Witness ==
    \E p, q \in Procs :
        /\ LoginSubmitDone(p) /\ ~req[p].sent /\ req[p].token # 0
        /\ req[q].op = "Verify" /\ pc[q] = "idle"
        /\ req[q].token = req[p].token
        /\ req[q].seen = "used"
        /\ res[q].body.Error = VerifyError(req[q].page)
        /\ \E r \in sessions : r.email = req[p].email
        /\ redeemed[req[p].token] = 1

\* C36: a TokenStore.Validate whose conditional UPDATE marked the token used
\* returns the token's address, whatever a concurrent Cleanup does: the call
\* that has passed the UPDATE ends by returning the address the token was
\* issued for.
C36_ConsumedTokenReturnsAddress ==
    [][\A p \in Procs :
          (req[p].op = "TokenValidate" /\ pc[p] = "tv_select" /\ pc'[p] # "tv_select") =>
              /\ res'[p].ok
              /\ res'[p].email = issued[req[p].token]]_vars

\* Goroutine p serves a verify request whose token was accepted: it is about
\* to create the session or has created it and redirected.
VerifyAccepted(p) ==
    /\ req[p].op = "Verify"
    /\ \/ pc[p] = "vf_session"
       \/ pc[p] = "idle" /\ res[p].status = StatusSeeOther

\* C37: each token yields at most one session, whichever of /auth/verify and
\* /cli/auth/verify its presenters use.  No two requests that present the
\* same token are both accepted; a request is accepted only by the first
\* redemption of its token; a session is created only by an accepted request,
\* for the address of its token; and there are never more sessions than
\* redeemed tokens.
C37_OneSessionPerToken ==
    /\ [](\A p, q \in Procs :
            (p # q /\ VerifyAccepted(p) /\ VerifyAccepted(q))
                => req[p].token # req[q].token)
    /\ [](\A t \in DOMAIN issued : redeemed[t] <= 1)
    /\ [](sessionSeq <= Cardinality({t \in DOMAIN issued : redeemed[t] >= 1}))
    /\ [][\A p \in Procs :
            (pc[p] # "vf_session" /\ pc'[p] = "vf_session") =>
                /\ req[p].token \in DOMAIN issued
                /\ redeemed[req[p].token] = 0
                /\ redeemed'[req[p].token] = 1]_vars
    /\ [][sessions' # sessions =>
            \E p \in Procs :
                /\ pc[p] = "vf_session" /\ pc'[p] = "idle"
                /\ \A r \in sessions' \ sessions : r.email = issued[req[p].token]]_vars

\* One token was presented to both verify endpoints: the request to one of
\* them was given the session, the request to the other the error page.
C37_Witness ==
    \E p, q \in Procs :
        /\ req[p].op = "Verify" /\ req[q].op = "Verify"
        /\ req[p].token = req[q].token /\ req[p].token # 0
        /\ req[p].page # req[q].page
        /\ req[p].seen = "live" /\ req[q].seen = "live"
        /\ pc[p] = "idle" /\ res[p].status = StatusSeeOther
        /\ sessionSeq = 1
        /\ pc[q] = "idle" /\ res[q].body.Error = VerifyError(req[q].page)

\* C38: every key created through POST /api/keys is stored with a non-empty
\* owner, the address of the requester's session, so that the raw key given
\* to the requester validates as that owner: the key of a request answered
\* 201 is on record for the address of the session the request carried, and
\* a Validate of that key that finds its record returns that address.
C38_CreatedKeyOwnedByRequester ==
    /\ [](\A p \in Procs :
            (req[p].op = "CreateKey" /\ pc[p] = "idle" /\ res[p].status = StatusCreated) =>
                /\ req[p].cookie # <<>>
                /\ keyIssued[req[p].key].email # ""
                /\ keyIssued[req[p].key].email = sessIssued[req[p].cookie[1]])
    /\ [](\A p, q \in Procs :
            (/\ req[p].op = "CreateKey" /\ pc[p] = "idle" /\ res[p].status = StatusCreated
             /\ KeyValidateDone(q) /\ req[q].key = req[p].key /\ req[q].seen # "absent") =>
                /\ res[q].ok
                /\ res[q].email = sessIssued[req[p].cookie[1]])

\* C39: for one source, at most 10 bearer requests with invalid keys reach
\* APIKeyStore.Validate within one window, however concurrent requests
\* interleave.  Every entry of a source's list is one such request (it was
\* recorded after Validate returned no owner for its key), so the list never
\* holds more than rateLimitMaxFail entries of one window.
C39_AtMostTenInvalidPerWindow ==
    \A a \in ClientAddrs : RecentFailures(a) <= rateLimitMaxFail

\* C40: no request to a path under /api/ is answered with a redirect to the
\* login page.  Through RequireAPIKey(RequireAuth(mux)) such a request is
\* either forwarded to the mux or answered 401 or 429, never 303; one that
\* carries no session cookie and no bearer key that was ever issued is
\* answered 401 or 429.
C40_NoRedirectForAPI ==
    [][\A p \in Procs :
          (Completes(p) /\ HasPrefixAPI(req[p].path)) =>
              /\ res'[p].status # StatusSeeOther
              /\ ~res'[p].ok =>
                    res'[p].status \in {StatusUnauthorized, StatusTooManyRequests}
              /\ (req[p].cookie = <<>> /\ req[p].key \notin DOMAIN keyIssued) =>
                    res'[p].status \in {StatusUnauthorized, StatusTooManyRequests}
      ]_vars

\* While a user has a session, a request to the resource API with no cookie
\* and an invalid bearer key was answered 401.
C40_Witness ==
    \E p \in Procs :
        /\ pc[p] = "idle" /\ req[p].op = "Http"
        /\ HasPrefixAPI(req[p].path)
        /\ req[p].cookie = <<>>
        /\ IsBearer(req[p].hdr)
        /\ req[p].key \notin DOMAIN keyIssued
        /\ res[p].status = StatusUnauthorized
        /\ sessions # {}
====
